---- MODULE Spec2Model ----
(***************************************************************************)
(* Realtime client synchronisation layer of the jarvis-web frontend.       *)
(*                                                                         *)
(* Two connection managers exist in the repository:                        *)
(*   - the useWebSocket composable (composables/useWebSocket.js), fixed    *)
(*     retry interval, MAX_RECONNECT_ATTEMPTS = 10;                        *)
(*   - the websocket store (stores/websocket.js), exponential backoff,     *)
(*     maxReconnectAttempts = 5.                                           *)
(* A behaviour runs one of them (variable manager); the browser objects    *)
(* they create (WebSocket instances, setTimeout callbacks) are the         *)
(* variables sockets and timers.  Every handler is one event-loop turn,    *)
(* hence one action.                                                       *)
(***************************************************************************)
EXTENDS Integers, Sequences, FiniteSets, TLC

\* ------------------------------------------------------------------ bounds
MaxSockets == 2      \* WebSocket objects alive (not yet closed) at once
MaxTimers  == 2      \* reconnect timers pending at once
MaxLogLen  == 2      \* system log entries before clearLogs is needed
MaxChat    == 1      \* chat turns before clearMessages is needed

\* ------------------------------------------------------- program constants
MAX_RECONNECT_ATTEMPTS == 10
maxReconnectAttempts   == 5
BaseDelay              == 1000
MaxDelay               == 30000
maxLogs                == 100

Tokens  == {"tok"}
NoToken == "null"

NullWs   == 0        \* ws.value === null
ClosedWs == -1       \* ws.value is a socket whose close event was delivered
SockIds  == 1..MaxSockets   \* positions in sockets

Min(a, b) == IF a < b THEN a ELSE b

VARIABLES
  manager,              \* "composable" | "store": the manager this page runs
  authToken,            \* authStore.token
  sockets,              \* the WebSocket objects created and not yet closed,
                        \* oldest first; ws.value is a position in it
  timers,               \* pending setTimeout callbacks, oldest first
  c_ws, c_isConnected, c_isConnecting, c_reconnectAttempts,
  c_reconnectTimer,     \* "live": the id of the newest pending timer;
                        \* "null": null, or the id of a timer that has fired
                        \* (clearTimeout of it does nothing)
  s_ws, s_isConnected, s_reconnectAttempts, s_reconnectDelay,
  s_retries,            \* retry callbacks the store armed since the last
                        \* open event
  connectionStatus,     \* system store
  logs,                 \* system store, newest first (level, category)
  messages,             \* chat store, oldest first
  exhausted,            \* the attempt counter reached its maximum by
                        \* scheduled retries since the last open event
  rejects,              \* automatic attempts in a row that the peer opened
                        \* and closed after the auth frame
  activePlan,           \* planning store
  planHistory,          \* planning store, newest first
  pendingApproval,      \* planning store
  planTimers,           \* pending grace-delay callbacks, oldest first
  approvedIds,          \* plan ids whose pending approval was approved
  payloads,             \* the plan payloads the peer sends in this run
  now,                  \* Date.now(), in clock units
  pendingQuestion,      \* interaction store
  interactionHistory,   \* interaction store, oldest first
  card,                 \* the QuestionCard instance rendered for the question
  presented,            \* ids of the interactions handed to the store or
                        \* received in a planning.needs_input frame
  shownAt,              \* clock time at which the live interaction was
                        \* handed to the store
  resolveCalls,         \* submitResponse / submitInput / skipQuestion calls
  sendCalls,            \* frames handed to send() by sendMessage, with the
                        \* outcome; oldest first
  activeSearches,       \* system store, oldest first
  searchStats,          \* system store
  durations,            \* duration_ms values reported by search.results
  memoryOperations,     \* system store, newest first
  eventSeq,             \* log and memory events delivered so far
  systemState,          \* system store: state, queueSize, activePlans,
                        \* terminalCount
  lastIntent,           \* system store
  intentStats,          \* system store
  badFrames             \* unparseable frames delivered so far

vars == <<manager, authToken, sockets, timers,
          c_ws, c_isConnected, c_isConnecting, c_reconnectAttempts,
          c_reconnectTimer,
          s_ws, s_isConnected, s_reconnectAttempts, s_reconnectDelay,
          s_retries,
          connectionStatus, logs, messages,
          exhausted, rejects,
          activePlan, planHistory, pendingApproval, planTimers, approvedIds,
          payloads,
          now, pendingQuestion, interactionHistory, card, presented,
          shownAt, resolveCalls, sendCalls,
          activeSearches, searchStats, durations, memoryOperations, eventSeq,
          systemState, lastIntent, intentStats,
          badFrames>>

wsVars == <<manager, authToken, sockets, timers,
            c_ws, c_isConnected, c_isConnecting, c_reconnectAttempts,
            c_reconnectTimer,
            s_ws, s_isConnected, s_reconnectAttempts, s_reconnectDelay,
            s_retries,
            connectionStatus, logs, messages,
            exhausted, rejects>>
planVars == <<activePlan, planHistory, pendingApproval, planTimers,
              approvedIds, payloads>>

cardVars == <<pendingQuestion, interactionHistory, card, presented,
              shownAt, resolveCalls>>
statusVars == <<systemState, lastIntent, intentStats>>
telemetryVars == <<activeSearches, searchStats, durations, memoryOperations,
                   eventSeq, statusVars>>
uiVars == <<now, cardVars, sendCalls, telemetryVars, badFrames>>

cVars == <<c_ws, c_isConnected, c_isConnecting, c_reconnectAttempts,
           c_reconnectTimer>>
sVars == <<s_ws, s_isConnected, s_reconnectAttempts, s_reconnectDelay,
           s_retries>>
storeVars == <<connectionStatus, logs, messages>>

\* --------------------------------------------------------------- sockets
\* rs: readyState; token: the credential captured by the handlers' closure;
\* opened: the open event was delivered.  origin: who called connect,
\* recorded while the socket is connecting.  Recorded while it is open: est,
\* connection_established was received; authSent, an auth frame was put on
\* its wire.  discFresh: closed by disconnect() and connect() not called
\* since.
NoSocket ==
  [rs |-> "NONE", token |-> NoToken, origin |-> "none", opened |-> FALSE,
   est |-> FALSE, authSent |-> FALSE, discFresh |-> FALSE]

NewSocket(t, origin) ==
  [rs |-> "CONNECTING", token |-> t, origin |-> origin, opened |-> FALSE,
   est |-> FALSE, authSent |-> FALSE, discFresh |-> FALSE]

\* new WebSocket(url): the new object and the position ws.value gets
Created(socks, t, origin) == Append(socks, NewSocket(t, origin))
NewSocketId(socks) == Len(socks) + 1

\* The close event of socket i was delivered: the object is gone, and a
\* reference to it sees a closed socket.
Removed(socks, i) ==
  SubSeq(socks, 1, i - 1) \o SubSeq(socks, i + 1, Len(socks))
AfterRemoval(w, i) ==
  IF w = i THEN ClosedWs ELSE IF w > i THEN w - 1 ELSE w

ReadyState(w, socks) ==
  IF w = ClosedWs THEN "CLOSED" ELSE socks[w].rs

\* WebSocket.close(): a connecting or open socket starts closing, its close
\* event is delivered in a later turn to the handlers still attached.
CloseSocket(w, socks) ==
  IF w \in 1..Len(socks) /\ socks[w].rs \in {"CONNECTING", "OPEN"}
  THEN [socks EXCEPT ![w] = [NoSocket EXCEPT !.rs = "CLOSING",
                                             !.token = socks[w].token,
                                             !.opened = socks[w].opened,
                                             !.discFresh = TRUE]]
  ELSE socks

\* WebSocket.send() on an open socket: the frame is on the wire
Transmit(w, socks, frame) ==
  [socks EXCEPT ![w].authSent = @ \/ frame.type = "auth"]

AuthFrame(t) == [type |-> "auth", token |-> t]
UserFrames ==
  {[type |-> "user_message", token |-> NoToken],
   [type |-> "plan_approval", token |-> NoToken]}

MaxAttempts == IF manager = "composable" THEN MAX_RECONNECT_ATTEMPTS
               ELSE maxReconnectAttempts

\* ----------------------------------------------------------- system store
addLog_m(ls, level, category) ==
  LET u == <<[level |-> level, category |-> category]>> \o ls
  IN IF Len(u) > maxLogs THEN SubSeq(u, 2, Len(u)) ELSE u

addLog(ls, level, category) ==
  LET u == <<[level |-> level, category |-> category]>> \o ls
  IN IF Len(u) > maxLogs THEN SubSeq(u, 1, maxLogs) ELSE u

clearLogs ==
  /\ logs # <<>>
  /\ logs' = <<>>
  /\ UNCHANGED planVars
  /\ UNCHANGED uiVars
  /\ UNCHANGED <<manager, authToken, sockets, timers, cVars, sVars,
                 connectionStatus, messages, exhausted, rejects>>

\* ------------------------------------------------------------- chat store
\* addMessage(message): message.id || Date.now(), message.role || 'user'
addMessage(ms, message) ==
  Append(ms, [id |-> IF "id" \in DOMAIN message /\ message.id # 0
                     THEN message.id ELSE now,
              role |-> IF "role" \in DOMAIN message
                       THEN message.role ELSE "user",
              content |-> message.content])

addSystemMessage(ms, content) ==
  addMessage(ms, [role |-> "system", content |-> content])

clearMessages ==
  /\ messages # <<>>
  /\ messages' = <<>>
  /\ UNCHANGED planVars
  /\ UNCHANGED uiVars
  /\ UNCHANGED <<manager, authToken, sockets, timers, cVars, sVars,
                 connectionStatus, logs, exhausted, rejects>>

\* ------------------------------------------------------------- auth store
\* Read by the websocket store's reconnect callback; the composable is
\* handed its token by the caller and never reads it.
login(t) ==
  /\ manager = "store"
  /\ authToken # t
  /\ authToken' = t
  /\ UNCHANGED planVars
  /\ UNCHANGED uiVars
  /\ UNCHANGED <<manager, sockets, timers, cVars, sVars, storeVars, exhausted,
                 rejects>>

logout ==
  /\ manager = "store"
  /\ authToken # NoToken
  /\ authToken' = NoToken
  /\ UNCHANGED planVars
  /\ UNCHANGED uiVars
  /\ UNCHANGED <<manager, sockets, timers, cVars, sVars, storeVars, exhausted,
                 rejects>>

\* ====================================================== useWebSocket.js
\* send(message): returns [ret, tx, sockets]; tx says whether the frame
\* reached the wire.  WebSocket.send throws on a CONNECTING socket (caught,
\* false) and silently discards on a CLOSING or CLOSED one (true).
C_send(isConn, w, socks, frame) ==
  IF ~isConn \/ w = NullWs
  THEN [ret |-> FALSE, tx |-> FALSE, sockets |-> socks]
  ELSE IF ReadyState(w, socks) = "CONNECTING"
  THEN [ret |-> FALSE, tx |-> FALSE, sockets |-> socks]
  ELSE IF ReadyState(w, socks) = "OPEN"
  THEN [ret |-> TRUE, tx |-> TRUE, sockets |-> Transmit(w, socks, frame)]
  ELSE [ret |-> TRUE, tx |-> FALSE, sockets |-> socks]

EstOf(w, socks) == w \in 1..Len(socks) /\ socks[w].est

ClearFresh(socks) ==
  [i \in 1..Len(socks) |-> [socks[i] EXCEPT !.discFresh = FALSE]]

ClearPreDisc(ts) ==
  [k \in 1..Len(ts) |-> [ts[k] EXCEPT !.preDisc = FALSE]]

MarkPreDisc(ts) ==
  [k \in 1..Len(ts) |-> [ts[k] EXCEPT !.preDisc = TRUE]]

\* The early return of connect(token)
C_connectReturns_m == c_isConnecting /\ c_isConnected
C_connectReturns == c_isConnecting \/ c_isConnected

\* connect(token), called by a component with its token
C_connect(t) ==
  /\ manager = "composable"
  /\ LET socks == ClearFresh(sockets)
     IN IF C_connectReturns
        THEN /\ sockets' = socks
             /\ UNCHANGED <<c_ws, c_isConnecting>>
        ELSE /\ Len(socks) < MaxSockets
             /\ sockets' = Created(socks, t, "explicit")
             /\ c_ws' = NewSocketId(socks)
             /\ c_isConnecting' = TRUE
  /\ timers' = ClearPreDisc(timers)
  /\ rejects' = 0
  /\ UNCHANGED planVars
  /\ UNCHANGED uiVars
  /\ UNCHANGED <<manager, authToken, c_isConnected, c_reconnectAttempts,
                 c_reconnectTimer, sVars, storeVars,
                 exhausted>>

\* ws.onopen of socket i
C_onopen(i) ==
  /\ manager = "composable"
  /\ i \in 1..Len(sockets)
  /\ sockets[i].rs = "CONNECTING"
  /\ LET socks1 == [sockets EXCEPT ![i].rs = "OPEN", ![i].opened = TRUE,
                                      ![i].origin = "none"]
         r == C_send(TRUE, c_ws, socks1, AuthFrame(sockets[i].token))
     IN sockets' = r.sockets
  /\ c_isConnected' = TRUE
  /\ c_isConnecting' = FALSE
  /\ c_reconnectAttempts' = 0
  /\ exhausted' = FALSE
  /\ UNCHANGED planVars
  /\ UNCHANGED uiVars
  /\ UNCHANGED <<manager, authToken, timers, c_ws, c_reconnectTimer, sVars,
                 storeVars, rejects>>

\* ws.onmessage of socket i -> handleMessage, in-band connection_established
C_onmessage(i) ==
  /\ manager = "composable"
  /\ i \in 1..Len(sockets)
  /\ sockets[i].rs = "OPEN"
  /\ Len(messages) < MaxChat
  /\ messages' = addSystemMessage(messages, "Connected to JARVIS")
  /\ connectionStatus' = "connected"
  /\ sockets' = [sockets EXCEPT ![i].est = TRUE]
  /\ rejects' = 0
  /\ UNCHANGED planVars
  /\ UNCHANGED uiVars
  /\ UNCHANGED <<manager, authToken, timers, cVars, sVars, logs, exhausted>>

\* The peer closed an open socket right after the auth frame reached it.
AuthRejected(s) ==
  /\ s.rs = "OPEN"
  /\ ~s.est
  /\ s.authSent

\* Close of socket i.  err: the connection failed, so ws.onerror runs and
\* then ws.onclose; otherwise ws.onclose alone (peer close, or the end of a
\* close() of a socket that had opened).
C_close(i, err) ==
  /\ manager = "composable"
  /\ i \in 1..Len(sockets)
  /\ IF err THEN sockets[i].rs \in {"CONNECTING", "OPEN", "CLOSING"}
            ELSE \/ sockets[i].rs = "OPEN"
                 \/ sockets[i].rs = "CLOSING" /\ sockets[i].opened
  /\ LET sched == c_reconnectAttempts < MAX_RECONNECT_ATTEMPTS
         logs1 == IF err
                  THEN addLog(logs, "ERROR", "WEBSOCKET")
                  ELSE logs
         logs2 == IF sched
                  THEN logs1
                  ELSE addLog(logs1, "ERROR", "WEBSOCKET")
     IN /\ sched => Len(timers) < MaxTimers
        /\ Len(logs2) <= MaxLogLen
        /\ logs' = logs2
        /\ c_isConnected' = FALSE
        /\ c_isConnecting' = FALSE
        /\ IF sched
           THEN /\ c_reconnectAttempts' = c_reconnectAttempts + 1
                /\ timers' = Append(timers, [token |-> sockets[i].token,
                                             preDisc |-> FALSE])
                /\ c_reconnectTimer' = "live"
                /\ exhausted' = (exhausted \/ c_reconnectAttempts + 1 =
                                                MAX_RECONNECT_ATTEMPTS)
           ELSE UNCHANGED <<c_reconnectAttempts, timers, c_reconnectTimer,
                            exhausted>>
  /\ sockets' = Removed(sockets, i)
  /\ c_ws' = AfterRemoval(c_ws, i)
  /\ rejects' = IF ~err /\ AuthRejected(sockets[i])
                THEN Min(rejects + 1, MAX_RECONNECT_ATTEMPTS + 1)
                ELSE 0
  /\ UNCHANGED planVars
  /\ UNCHANGED uiVars
  /\ UNCHANGED <<manager, authToken, sVars, connectionStatus, messages>>

\* The reconnect callback armed by ws.onclose: connect(token)
C_timer ==
  /\ manager = "composable"
  /\ timers # <<>>
  /\ timers' = Tail(timers)
  /\ c_reconnectTimer' = IF c_reconnectTimer = "live" /\ Len(timers) = 1
                         THEN "null" ELSE c_reconnectTimer
  /\ IF C_connectReturns
     THEN /\ UNCHANGED <<sockets, c_ws, c_isConnecting>>
     ELSE /\ Len(sockets) < MaxSockets
          /\ sockets' = Created(sockets, Head(timers).token, "timer")
          /\ c_ws' = NewSocketId(sockets)
          /\ c_isConnecting' = TRUE
  /\ UNCHANGED planVars
  /\ UNCHANGED uiVars
  /\ UNCHANGED <<manager, authToken, c_isConnected, c_reconnectAttempts,
                 sVars, storeVars, exhausted, rejects>>

\* disconnect(), also run by onUnmounted
C_disconnect ==
  /\ manager = "composable"
  /\ timers' = MarkPreDisc(IF c_reconnectTimer = "live"
                           THEN SubSeq(timers, 1, Len(timers) - 1)
                           ELSE timers)
  /\ c_reconnectTimer' = "null"
  /\ sockets' = CloseSocket(c_ws, sockets)
  /\ c_ws' = NullWs
  /\ c_isConnected' = FALSE
  /\ c_isConnecting' = FALSE
  /\ c_reconnectAttempts' = 0
  /\ rejects' = 0
  /\ UNCHANGED planVars
  /\ UNCHANGED uiVars
  /\ UNCHANGED <<manager, authToken, sVars, storeVars, exhausted>>

\* send(message) called by a component with a user_message or
\* plan_approval frame
C_sendFrame(f) ==
  /\ manager = "composable"
  /\ LET r == C_send(c_isConnected, c_ws, sockets, f)
     IN sockets' = r.sockets
  /\ UNCHANGED planVars
  /\ UNCHANGED uiVars
  /\ UNCHANGED <<manager, authToken, timers, cVars, sVars, storeVars,
                 exhausted, rejects>>

\* ================================================== stores/websocket.js
\* sendMessage(message): returns [ret, tx, sockets]
S_sendMessage(w, socks, frame) ==
  IF w = NullWs \/ ReadyState(w, socks) # "OPEN"
  THEN [ret |-> FALSE, tx |-> FALSE, sockets |-> socks]
  ELSE [ret |-> TRUE, tx |-> TRUE, sockets |-> Transmit(w, socks, frame)]

\* The early returns of connect(token)
S_connectReturns(t, w, socks) ==
  \/ t = NoToken
  \/ w # NullWs /\ ReadyState(w, socks) \in {"CONNECTING", "OPEN"}

\* connect(token), called with authStore.token
S_connect ==
  /\ manager = "store"
  /\ LET socks == ClearFresh(sockets)
     IN IF S_connectReturns(authToken, s_ws, socks)
        THEN /\ sockets' = socks
             /\ UNCHANGED s_ws
        ELSE /\ Len(socks) < MaxSockets
             /\ sockets' = Created(socks, authToken, "explicit")
             /\ s_ws' = NewSocketId(socks)
  /\ timers' = ClearPreDisc(timers)
  /\ rejects' = 0
  /\ UNCHANGED planVars
  /\ UNCHANGED uiVars
  /\ UNCHANGED <<manager, authToken, cVars, s_isConnected,
                 s_reconnectAttempts, s_reconnectDelay, s_retries, storeVars,
                 exhausted>>

\* The delay the next retry gets: reconnectDelay doubled, up to the ceiling
NextDelay_m(delay) == delay * 2
NextDelay(delay) == Min(delay * 2, MaxDelay)

\* The values ws.onopen gives the attempt counter and the backoff delay
S_onopenResets_m == [attempts |-> 0, delay |-> s_reconnectDelay]
S_onopenResets == [attempts |-> 0, delay |-> BaseDelay]

\* ws.onopen of socket i
S_onopen(i) ==
  /\ manager = "store"
  /\ i \in 1..Len(sockets)
  /\ sockets[i].rs = "CONNECTING"
  /\ LET socks1 == [sockets EXCEPT ![i].rs = "OPEN", ![i].opened = TRUE,
                                      ![i].origin = "none"]
         r == S_sendMessage(s_ws, socks1, AuthFrame(sockets[i].token))
     IN sockets' = r.sockets
  /\ s_isConnected' = TRUE
  /\ s_reconnectAttempts' = S_onopenResets.attempts
  /\ s_reconnectDelay' = S_onopenResets.delay
  /\ s_retries' = 0
  /\ exhausted' = FALSE
  /\ UNCHANGED planVars
  /\ UNCHANGED uiVars
  /\ UNCHANGED <<manager, authToken, timers, cVars, s_ws, storeVars, rejects>>

\* ws.onmessage of socket i -> handleMessage, connection_established
S_onmessage(i) ==
  /\ manager = "store"
  /\ i \in 1..Len(sockets)
  /\ sockets[i].rs = "OPEN"
  /\ sockets' = [sockets EXCEPT ![i].est = TRUE]
  /\ rejects' = 0
  /\ UNCHANGED planVars
  /\ UNCHANGED uiVars
  /\ UNCHANGED <<manager, authToken, timers, cVars, sVars, storeVars,
                 exhausted>>

\* Close of socket i.  err: ws.onerror runs, then ws.onclose; otherwise
\* ws.onclose alone.
S_close(i, err) ==
  /\ manager = "store"
  /\ i \in 1..Len(sockets)
  /\ IF err THEN sockets[i].rs \in {"CONNECTING", "OPEN", "CLOSING"}
            ELSE \/ sockets[i].rs = "OPEN"
                 \/ sockets[i].rs = "CLOSING" /\ sockets[i].opened
  /\ LET sched == s_reconnectAttempts < maxReconnectAttempts
     IN /\ sched => Len(timers) < MaxTimers
        /\ s_isConnected' = FALSE
        /\ IF sched
           THEN /\ s_reconnectAttempts' = s_reconnectAttempts + 1
                \* the callback is armed with the delay held now
                /\ timers' = Append(timers, [token |-> NoToken,
                                             preDisc |-> FALSE])
                /\ s_reconnectDelay' = NextDelay(s_reconnectDelay)
                /\ s_retries' = s_retries + 1
                /\ exhausted' = (exhausted \/ s_reconnectAttempts + 1 =
                                                maxReconnectAttempts)
           ELSE UNCHANGED <<s_reconnectAttempts, timers, s_reconnectDelay,
                            s_retries, exhausted>>
  /\ sockets' = Removed(sockets, i)
  /\ s_ws' = AfterRemoval(s_ws, i)
  /\ rejects' = IF ~err /\ AuthRejected(sockets[i])
                THEN Min(rejects + 1, maxReconnectAttempts + 1)
                ELSE 0
  /\ UNCHANGED planVars
  /\ UNCHANGED uiVars
  /\ UNCHANGED <<manager, authToken, cVars, storeVars>>

\* The k-th pending reconnect callback: connect(authStore.token) if a token
\* is there.  The delays differ, so the callbacks fire in any order.
S_timer(k) ==
  /\ manager = "store"
  /\ k \in 1..Len(timers)
  /\ timers' = SubSeq(timers, 1, k - 1) \o SubSeq(timers, k + 1, Len(timers))
  /\ IF authToken = NoToken \/ S_connectReturns(authToken, s_ws, sockets)
     THEN /\ UNCHANGED <<sockets, s_ws>>
     ELSE /\ Len(sockets) < MaxSockets
          /\ sockets' = Created(sockets, authToken, "timer")
          /\ s_ws' = NewSocketId(sockets)
  /\ UNCHANGED planVars
  /\ UNCHANGED uiVars
  /\ UNCHANGED <<manager, authToken, cVars, s_isConnected,
                 s_reconnectAttempts, s_reconnectDelay, s_retries, storeVars,
                 exhausted, rejects>>

\* disconnect()
S_disconnect ==
  /\ manager = "store"
  /\ IF s_ws # NullWs
     THEN /\ s_reconnectAttempts' = maxReconnectAttempts
          /\ sockets' = CloseSocket(s_ws, sockets)
          /\ s_ws' = NullWs
          /\ s_isConnected' = FALSE
     ELSE UNCHANGED <<s_reconnectAttempts, sockets, s_ws, s_isConnected>>
  /\ timers' = MarkPreDisc(timers)
  /\ rejects' = 0
  /\ UNCHANGED planVars
  /\ UNCHANGED uiVars
  /\ UNCHANGED <<manager, authToken, cVars, s_reconnectDelay, s_retries,
                 storeVars, exhausted>>

\* sendMessage(message) called by a component
S_send(f) ==
  /\ manager = "store"
  /\ LET r == S_sendMessage(s_ws, sockets, f)
     IN sockets' = r.sockets
  /\ UNCHANGED planVars
  /\ UNCHANGED uiVars
  /\ UNCHANGED <<manager, authToken, timers, cVars, sVars, storeVars,
                 exhausted, rejects>>

\* ==================================================== stores/planning.js
MaxHistory     == 1   \* history entries, in a run of plans with steps
MaxLongHistory == 11  \* history entries, in a run of plans without steps
MaxPlanTimers  == 2   \* grace-delay callbacks pending at once

HistoryCap == 10

NoPlan  == [null |-> TRUE]     \* activePlan / pendingApproval === null
PlanIds == {"p1", "p2"}

\* Planning events are delivered by the router in any connection state the
\* peer can send in; the store's handlers read nothing but their payload and
\* the store.  Plan payloads (plan_created, plan_started) of a run:
PlanWithSteps ==
  [plan_id |-> "p1", description |-> "d1",
   steps |-> <<[id |-> "s1", status |-> "pending", progress |-> 0]>>]
PlanNoSteps ==
  [plan_id |-> "p2", description |-> "d2"]      \* data.steps undefined
StepRun == {PlanWithSteps, PlanNoSteps}
LongRun == {PlanNoSteps}

HistoryBound == IF payloads = LongRun THEN MaxLongHistory ELSE MaxHistory

\* Step payloads: s1 is a step of PlanWithSteps, s9 of no plan
StepEvents ==
  {[step_id |-> "s1", progress |-> 50], [step_id |-> "s9", progress |-> 50]}

\* data.steps || []
StepsOf(data) == IF "steps" \in DOMAIN data THEN data.steps ELSE <<>>

\* steps.find(s => s.id === step_id): the position of the first match, 0 for
\* undefined
FindStep_m(steps, step_id) == IF steps = <<>> THEN 0 ELSE 1
FindStep(steps, step_id) ==
  IF \E k \in 1..Len(steps) : steps[k].id = step_id
  THEN CHOOSE k \in 1..Len(steps) :
         /\ steps[k].id = step_id
         /\ \A j \in 1..(k - 1) : steps[j].id # step_id
  ELSE 0

\* { ...activePlan.value }: the entry copies the plan's own fields and holds
\* the same steps array as the plan (shared) for as long as the plan object
\* is the active plan.
HistoryEntry(plan) ==
  [id |-> plan.id, description |-> plan.description, status |-> plan.status,
   steps |-> plan.steps, shared |-> plan.steps # <<>>]

\* The active plan object is replaced or dropped: no step event reaches the
\* steps of the entries any more.
Unshared(h) == [k \in 1..Len(h) |-> [h[k] EXCEPT !.shared = FALSE]]

\* A step of the active plan was assigned to: the entries that hold the
\* same steps array show it too.
WithSteps(h, steps) ==
  [k \in 1..Len(h) |-> IF h[k].shared THEN [h[k] EXCEPT !.steps = steps]
                                      ELSE h[k]]

Superseded(ts) == [k \in 1..Len(ts) |-> [ts[k] EXCEPT !.superseded = TRUE]]

handlePlanCreated_m(data) ==
  /\ pendingApproval' = IF pendingApproval # NoPlan
                        THEN pendingApproval
                        ELSE [id |-> data.plan_id,
                              description |-> data.description,
                              steps |-> StepsOf(data)]
  /\ approvedIds' = approvedIds \ {data.plan_id}
  /\ UNCHANGED <<activePlan, planHistory, planTimers, payloads>>
  /\ UNCHANGED wsVars
  /\ UNCHANGED uiVars

handlePlanCreated(data) ==
  /\ pendingApproval' = [id |-> data.plan_id,
                         description |-> data.description,
                         steps |-> StepsOf(data)]
  /\ approvedIds' = approvedIds \ {data.plan_id}
  /\ UNCHANGED <<activePlan, planHistory, planTimers, payloads>>
  /\ UNCHANGED wsVars
  /\ UNCHANGED uiVars

handlePlanApproved(data) ==
  /\ pendingApproval' = NoPlan
  /\ approvedIds' = IF pendingApproval # NoPlan /\
                       pendingApproval.id = data.plan_id
                    THEN approvedIds \cup {data.plan_id}
                    ELSE approvedIds
  /\ UNCHANGED <<activePlan, planHistory, planTimers, payloads>>
  /\ UNCHANGED wsVars
  /\ UNCHANGED uiVars

handlePlanRejected(data) ==
  /\ pendingApproval' = NoPlan
  /\ UNCHANGED <<activePlan, planHistory, planTimers, approvedIds, payloads>>
  /\ UNCHANGED wsVars
  /\ UNCHANGED uiVars

handlePlanStarted_m(data) ==
  /\ activePlan' = [id |-> data.plan_id,
                    description |-> data.description,
                    steps |-> StepsOf(data),
                    status |-> "in_progress"]
  /\ pendingApproval' = NoPlan
  /\ planHistory' = Unshared(planHistory)
  /\ planTimers' = Superseded(planTimers)
  /\ UNCHANGED <<approvedIds, payloads>>
  /\ UNCHANGED wsVars
  /\ UNCHANGED uiVars

handlePlanStarted(data) ==
  /\ activePlan' = [id |-> data.plan_id,
                    description |-> data.description,
                    steps |-> StepsOf(data),
                    status |-> "in_progress"]
  /\ planHistory' = Unshared(planHistory)
  /\ planTimers' = Superseded(planTimers)
  /\ UNCHANGED <<pendingApproval, approvedIds, payloads>>
  /\ UNCHANGED wsVars
  /\ UNCHANGED uiVars

\* The early return and the lookup shared by the four step handlers: the
\* position of the step found in the active plan, 0 when there is none.
FoundStep(plan, step_id) ==
  IF plan = NoPlan THEN 0 ELSE FindStep(plan.steps, step_id)

\* planHistory after a step handler took the active plan to plan
StepHistory(h, plan) ==
  IF plan = activePlan THEN h ELSE WithSteps(h, plan.steps)

handleStepStarted(data) ==
  /\ LET k == FoundStep(activePlan, data.step_id)
         plan == IF k = 0
                 THEN activePlan
                 ELSE [activePlan EXCEPT !.steps[k].status = "in_progress"]
     IN /\ activePlan' = plan
        /\ planHistory' = StepHistory(planHistory, plan)
  /\ UNCHANGED <<pendingApproval, planTimers, approvedIds, payloads>>
  /\ UNCHANGED wsVars
  /\ UNCHANGED uiVars

handleStepProgress(data) ==
  /\ LET k == FoundStep(activePlan, data.step_id)
         plan == IF k = 0
                 THEN activePlan
                 ELSE [activePlan EXCEPT !.steps[k].progress = data.progress]
     IN /\ activePlan' = plan
        /\ planHistory' = StepHistory(planHistory, plan)
  /\ UNCHANGED <<pendingApproval, planTimers, approvedIds, payloads>>
  /\ UNCHANGED wsVars
  /\ UNCHANGED uiVars

handleStepCompleted(data) ==
  /\ LET k == FoundStep(activePlan, data.step_id)
         plan == IF k = 0
                 THEN activePlan
                 ELSE [activePlan EXCEPT !.steps[k].status = "completed"]
     IN /\ activePlan' = plan
        /\ planHistory' = StepHistory(planHistory, plan)
  /\ UNCHANGED <<pendingApproval, planTimers, approvedIds, payloads>>
  /\ UNCHANGED wsVars
  /\ UNCHANGED uiVars

handleStepFailed(data) ==
  /\ LET k == FoundStep(activePlan, data.step_id)
         plan == IF k = 0
                 THEN activePlan
                 ELSE [activePlan EXCEPT !.steps[k].status = "failed"]
     IN /\ activePlan' = plan
        /\ planHistory' = StepHistory(planHistory, plan)
  /\ UNCHANGED <<pendingApproval, planTimers, approvedIds, payloads>>
  /\ UNCHANGED wsVars
  /\ UNCHANGED uiVars

\* planHistory after handlePlanCompleted: unshift, then keep the first 10
CompletedHistory(h, plan) ==
  LET u == <<HistoryEntry(plan)>> \o h
  IN IF Len(u) > HistoryCap THEN SubSeq(u, 1, HistoryCap) ELSE u

\* planHistory after handlePlanFailed: unshift
FailedHistory(h, plan) == <<HistoryEntry(plan)>> \o h

handlePlanCompleted(data) ==
  /\ IF activePlan = NoPlan
     THEN UNCHANGED <<activePlan, planHistory, planTimers>>
     ELSE /\ Len(planHistory) < HistoryBound
          /\ Len(planTimers) < MaxPlanTimers
          /\ LET plan == [activePlan EXCEPT !.status = "completed"]
             IN /\ activePlan' = plan
                /\ planHistory' = CompletedHistory(planHistory, plan)
          /\ planTimers' = Append(planTimers, [superseded |-> FALSE])
  /\ UNCHANGED <<pendingApproval, approvedIds, payloads>>
  /\ UNCHANGED wsVars
  /\ UNCHANGED uiVars

handlePlanFailed(data) ==
  /\ IF activePlan = NoPlan
     THEN UNCHANGED <<activePlan, planHistory, planTimers>>
     ELSE /\ Len(planHistory) < HistoryBound
          /\ Len(planTimers) < MaxPlanTimers
          /\ LET plan == [activePlan EXCEPT !.status = "failed"]
             IN /\ activePlan' = plan
                /\ planHistory' = FailedHistory(planHistory, plan)
          /\ planTimers' = Append(planTimers, [superseded |-> FALSE])
  /\ UNCHANGED <<pendingApproval, approvedIds, payloads>>
  /\ UNCHANGED wsVars
  /\ UNCHANGED uiVars

\* The callback armed by handlePlanCompleted / handlePlanFailed; the delays
\* are equal, so the callbacks fire oldest first.
\* handlePlanningEvent(eventType, data): the switch, which has no default
handlePlanningEvent(eventType, data) ==
  CASE eventType = "planning.plan_created" -> handlePlanCreated(data)
    [] eventType = "planning.plan_approved" -> handlePlanApproved(data)
    [] eventType = "planning.plan_rejected" -> handlePlanRejected(data)
    [] eventType = "planning.plan_started" -> handlePlanStarted(data)
    [] eventType = "planning.step_started" -> handleStepStarted(data)
    [] eventType = "planning.step_progress" -> handleStepProgress(data)
    [] eventType = "planning.step_completed" -> handleStepCompleted(data)
    [] eventType = "planning.step_failed" -> handleStepFailed(data)
    [] eventType = "planning.plan_completed" -> handlePlanCompleted(data)
    [] eventType = "planning.plan_failed" -> handlePlanFailed(data)
    [] OTHER -> UNCHANGED vars

GraceTimer ==
  /\ planTimers # <<>>
  /\ planTimers' = Tail(planTimers)
  /\ activePlan' = NoPlan
  /\ planHistory' = Unshared(planHistory)
  /\ UNCHANGED <<pendingApproval, approvedIds, payloads>>
  /\ UNCHANGED wsVars
  /\ UNCHANGED uiVars

clearActivePlan ==
  /\ activePlan' = NoPlan
  /\ planHistory' = Unshared(planHistory)
  /\ UNCHANGED <<pendingApproval, planTimers, approvedIds, payloads>>
  /\ UNCHANGED wsVars
  /\ UNCHANGED uiVars

clearPendingApproval ==
  /\ pendingApproval' = NoPlan
  /\ UNCHANGED <<activePlan, planHistory, planTimers, approvedIds, payloads>>
  /\ UNCHANGED wsVars
  /\ UNCHANGED uiVars

\* The planning store as constructed
PlanIdle ==
  /\ activePlan = NoPlan
  /\ planHistory = <<>>
  /\ pendingApproval = NoPlan
  /\ planTimers = <<>>
  /\ approvedIds = {}

\* ---------------------------------------------------------------- numbers
\* A double (avgDuration, timeoutProgress) is kept as the exact
\* fraction num/den in lowest terms (den > 0), or, with den = 0, as
\* Infinity (num = 1), -Infinity (num = -1) or not-a-number (num = 0).
Abs(a) == IF a < 0 THEN -a ELSE a
Sign(a) == IF a > 0 THEN 1 ELSE IF a < 0 THEN -1 ELSE 0

RECURSIVE Gcd(_, _)
Gcd(a, b) == IF b = 0 THEN a ELSE Gcd(b, a % b)

Frac(n, d) ==
  LET g == Gcd(Abs(n), d)
  IN [num |-> n \div g, den |-> d \div g]

Zero == [num |-> 0, den |-> 1]
Hundred == [num |-> 100, den |-> 1]
Finite(x) == x.den > 0

\* x * k, x + k, x / k for an integer k (k >= 0 in the division)
Times(x, k) ==
  IF Finite(x) THEN Frac(x.num * k, x.den)
  ELSE [num |-> Sign(x.num * k), den |-> 0]
Plus(x, k) ==
  IF Finite(x) THEN Frac(x.num + k * x.den, x.den) ELSE x
Over(x, k) ==
  IF ~Finite(x) THEN x
  ELSE IF k = 0 THEN [num |-> Sign(x.num), den |-> 0]
  ELSE Frac(x.num, x.den * k)

\* ================================ stores/interaction.js, QuestionCard.vue
MaxTicks        == 4   \* clock advances in a run
MaxInteractions == 2   \* interaction history entries
MaxResolves     == 2   \* clicks on the question card in a run

ClockStep == 500       \* one clock advance, in ms
TickUnit  == 1000      \* the countdown is shown in seconds

NoQuestion == [null |-> TRUE]       \* pendingQuestion === null

\* Payloads of planning.needs_input, bound to the card's props: two with a
\* timeout, one without
TimedQuestion ==
  [interactionId |-> "i1", timeoutMs |-> 1500, requireExplicit |-> TRUE]
OpenQuestion ==
  [interactionId |-> "i2", timeoutMs |-> 0, requireExplicit |-> FALSE]
LateQuestion ==
  [interactionId |-> "i3", timeoutMs |-> 1000, requireExplicit |-> FALSE]
Questions == {TimedQuestion, OpenQuestion, LateQuestion}

\* Math.ceil(a / b) for a >= 0, b > 0
Ceil(a, b) == (a + b - 1) \div b

\* (remaining / props.timeoutMs) * 100, for remaining > 0
Percent(remaining, timeoutMs) ==
  Over([num |-> remaining * 100, den |-> 1], timeoutMs)

\* No QuestionCard is rendered
NoCard ==
  [mounted |-> FALSE, endTime |-> 0, timeoutRemaining |-> 0,
   timeoutProgress |-> Hundred, interval |-> FALSE]

\* The instance after onMounted ran at clock time t with props data
Mounted(data, t) ==
  IF data.timeoutMs > 0
  THEN [mounted |-> TRUE, endTime |-> t + data.timeoutMs,
        timeoutRemaining |-> Ceil(data.timeoutMs, TickUnit),
        timeoutProgress |-> Hundred, interval |-> TRUE]
  ELSE [NoCard EXCEPT !.mounted = TRUE]

\* setPendingQuestion(data), and the render it triggers: ChatInterface shows
\* a QuestionCard while pendingQuestion is set; a card already shown gets the
\* new props and is not mounted again.
setPendingQuestion(data) ==
  /\ pendingQuestion' = data
  /\ card' = IF card.mounted THEN card ELSE Mounted(data, now)
  /\ presented' = presented \cup {data.interactionId}
  /\ shownAt' = now
  /\ UNCHANGED <<interactionHistory, resolveCalls>>
  /\ UNCHANGED <<now, sendCalls, telemetryVars, badFrames>>
  /\ UNCHANGED wsVars
  /\ UNCHANGED planVars

\* clearPendingQuestion(), and the unmount of the card it triggers.  The
\* card's own onUnmounted clears the interval; the card called
\* useWebSocket(), so the onUnmounted hook registered there runs
\* disconnect() on the module-level connection of the composable.
clearPendingQuestion ==
  /\ IF pendingQuestion # NoQuestion
     THEN /\ Len(interactionHistory) < MaxInteractions
          /\ interactionHistory' = Append(interactionHistory, pendingQuestion)
     ELSE UNCHANGED interactionHistory
  /\ pendingQuestion' = NoQuestion
  /\ card' = NoCard
  /\ IF card.mounted /\ manager = "composable"
     THEN /\ timers' = MarkPreDisc(IF c_reconnectTimer = "live"
                                   THEN SubSeq(timers, 1, Len(timers) - 1)
                                   ELSE timers)
          /\ c_reconnectTimer' = "null"
          /\ sockets' = CloseSocket(c_ws, sockets)
          /\ c_ws' = NullWs
          /\ c_isConnected' = FALSE
          /\ c_isConnecting' = FALSE
          /\ c_reconnectAttempts' = 0
          /\ rejects' = 0
          /\ UNCHANGED <<manager, authToken, sVars, storeVars, exhausted>>
     ELSE UNCHANGED wsVars
  /\ UNCHANGED <<presented, shownAt, resolveCalls>>
  /\ UNCHANGED <<now, sendCalls, telemetryVars, badFrames>>
  /\ UNCHANGED planVars

Tick_m ==
  /\ card.mounted
  /\ card.interval
  /\ LET remaining == card.endTime - now
     IN IF remaining <= 0
        THEN /\ card' = NoCard
             /\ pendingQuestion' = NoQuestion
             /\ interactionHistory' =
                  IF Len(interactionHistory) < MaxInteractions
                  THEN Append(interactionHistory, pendingQuestion)
                  ELSE interactionHistory
        ELSE /\ card' =
                  [card EXCEPT
                     !.timeoutProgress =
                        Percent(remaining, pendingQuestion.timeoutMs),
                     !.timeoutRemaining = Ceil(remaining, TickUnit)]
             /\ UNCHANGED <<pendingQuestion, interactionHistory>>
  /\ UNCHANGED <<presented, shownAt, resolveCalls>>
  /\ UNCHANGED <<now, sendCalls, telemetryVars, badFrames>>
  /\ UNCHANGED wsVars
  /\ UNCHANGED planVars

\* The setInterval callback of the card
Tick ==
  /\ card.mounted
  /\ card.interval
  /\ LET remaining == card.endTime - now
     IN card' =
          IF remaining <= 0
          THEN [card EXCEPT !.interval = FALSE,
                            !.timeoutProgress = Zero,
                            !.timeoutRemaining = 0]
          ELSE [card EXCEPT
                  !.timeoutProgress =
                     Percent(remaining, pendingQuestion.timeoutMs),
                  !.timeoutRemaining = Ceil(remaining, TickUnit)]
  /\ UNCHANGED <<pendingQuestion, interactionHistory, presented, shownAt,
                 resolveCalls>>
  /\ UNCHANGED <<now, sendCalls, telemetryVars, badFrames>>
  /\ UNCHANGED wsVars
  /\ UNCHANGED planVars

\* The three click handlers call sendInteractionResponse, which useWebSocket()
\* does not return: the call throws a TypeError before anything is sent or
\* cleared.
submitResponse ==
  /\ card.mounted
  /\ resolveCalls < MaxResolves
  /\ resolveCalls' = resolveCalls + 1
  /\ UNCHANGED <<pendingQuestion, interactionHistory, card, presented,
                 shownAt>>
  /\ UNCHANGED <<now, sendCalls, telemetryVars, badFrames>>
  /\ UNCHANGED wsVars
  /\ UNCHANGED planVars

\* submitInput with the text typed into the card
submitInput(inputValue) ==
  /\ card.mounted
  /\ resolveCalls < MaxResolves
  /\ resolveCalls' = IF inputValue = "" /\ pendingQuestion.requireExplicit
                     THEN resolveCalls
                     ELSE resolveCalls + 1
  /\ UNCHANGED <<pendingQuestion, interactionHistory, card, presented,
                 shownAt>>
  /\ UNCHANGED <<now, sendCalls, telemetryVars, badFrames>>
  /\ UNCHANGED wsVars
  /\ UNCHANGED planVars

skipQuestion ==
  /\ card.mounted
  /\ resolveCalls < MaxResolves
  /\ resolveCalls' = resolveCalls + 1
  /\ UNCHANGED <<pendingQuestion, interactionHistory, card, presented,
                 shownAt>>
  /\ UNCHANGED <<now, sendCalls, telemetryVars, badFrames>>
  /\ UNCHANGED wsVars
  /\ UNCHANGED planVars

\* Time passes
Advance ==
  /\ now < MaxTicks * ClockStep
  /\ now' = now + ClockStep
  /\ UNCHANGED <<cardVars, sendCalls, telemetryVars, badFrames>>
  /\ UNCHANGED wsVars
  /\ UNCHANGED planVars

CardIdle ==
  /\ pendingQuestion = NoQuestion
  /\ interactionHistory = <<>>
  /\ card = NoCard
  /\ presented = {}
  /\ shownAt = 0
  /\ resolveCalls = 0

\* ===================================================== stores/system.js
MaxSearches  == 11    \* search.query events in a run
MaxResults   == 3     \* search.results events in a run
MaxCacheHits == 1     \* search.cache_hit events in a run
MaxLogEvents == 101   \* log events in a run
MaxMemEvents == 21    \* memory events in a run

SearchCap == 10       \* activeSearches.slice(-10)
MemoryCap == 20       \* memoryOperations.slice(0, 20)

\* data.query of the search events: every search.query asks "q"; results,
\* cache hits and failures name "q" or a query never asked
AskedQuery    == "q"
SearchQueries == {"q", "zz"}
Durations     == {0, 100, 300}     \* data.duration_ms

\* ---- searches
\* activeSearches.find(s => s.query === query): position, 0 for undefined
FindSearch(searches, query) ==
  IF \E k \in 1..Len(searches) : searches[k].query = query
  THEN CHOOSE k \in 1..Len(searches) :
         /\ searches[k].query = query
         /\ \A j \in 1..(k - 1) : searches[j].query # query
  ELSE 0

WithStatus(searches, query, status) ==
  LET k == FindSearch(searches, query)
  IN IF k = 0 THEN searches ELSE [searches EXCEPT ![k].status = status]

\* activeSearches.slice(-10) when longer than 10
Trimmed(searches) ==
  IF Len(searches) > SearchCap
  THEN SubSeq(searches, Len(searches) - SearchCap + 1, Len(searches))
  ELSE searches

\* ((current * (total - 1)) + duration_ms) / total
NextAverage(current, total, duration_ms) ==
  Over(Plus(Times(current, total - 1), duration_ms), total)

handleSearchQuery(data) ==
  /\ searchStats.total < MaxSearches
  /\ activeSearches' =
       Append(activeSearches, [query |-> data.query, status |-> "searching"])
  /\ searchStats' = [searchStats EXCEPT !.total = @ + 1]
  /\ UNCHANGED <<durations, memoryOperations, eventSeq>>
  /\ UNCHANGED statusVars
  /\ UNCHANGED <<now, cardVars, sendCalls, badFrames>>
  /\ UNCHANGED wsVars
  /\ UNCHANGED planVars

handleSearchResults(data) ==
  /\ durations.count < MaxResults
  /\ activeSearches' =
       Trimmed(WithStatus(activeSearches, data.query, "completed"))
  /\ searchStats' =
       IF data.duration_ms # 0
       THEN [searchStats EXCEPT
               !.avgDuration = NextAverage(searchStats.avgDuration,
                                           searchStats.total,
                                           data.duration_ms)]
       ELSE searchStats
  /\ durations' = [sum |-> durations.sum + data.duration_ms,
                   count |-> durations.count + 1]
  /\ UNCHANGED <<memoryOperations, eventSeq>>
  /\ UNCHANGED statusVars
  /\ UNCHANGED <<now, cardVars, sendCalls, badFrames>>
  /\ UNCHANGED wsVars
  /\ UNCHANGED planVars

handleSearchCacheHit(data) ==
  /\ searchStats.cacheHits < MaxCacheHits
  /\ searchStats' = [searchStats EXCEPT !.cacheHits = @ + 1]
  /\ activeSearches' = WithStatus(activeSearches, data.query, "cached")
  /\ UNCHANGED <<durations, memoryOperations, eventSeq>>
  /\ UNCHANGED statusVars
  /\ UNCHANGED <<now, cardVars, sendCalls, badFrames>>
  /\ UNCHANGED wsVars
  /\ UNCHANGED planVars

handleSearchFailed(data) ==
  /\ activeSearches' = WithStatus(activeSearches, data.query, "failed")
  /\ UNCHANGED <<searchStats, durations, memoryOperations, eventSeq>>
  /\ UNCHANGED statusVars
  /\ UNCHANGED <<now, cardVars, sendCalls, badFrames>>
  /\ UNCHANGED wsVars
  /\ UNCHANGED planVars

clearSearches ==
  /\ activeSearches' = <<>>
  /\ UNCHANGED <<searchStats, durations, memoryOperations, eventSeq>>
  /\ UNCHANGED statusVars
  /\ UNCHANGED <<now, cardVars, sendCalls, badFrames>>
  /\ UNCHANGED wsVars
  /\ UNCHANGED planVars

\* ---- memory operations and logs.  The k-th event of a run carries k, so
\* that entries can be told apart.
MemoryTypes == {"memory.store"}
LogLevels   == {"INFO"}

\* memoryOperations after handleMemoryEvent: unshift, then keep the first 20
Remembered(ops, eventType, data) ==
  LET u == <<[type |-> eventType, data |-> data]>> \o ops
  IN IF Len(u) > MemoryCap THEN SubSeq(u, 1, MemoryCap) ELSE u

handleMemoryEvent(eventType) ==
  /\ eventSeq.mem < MaxMemEvents
  /\ memoryOperations' =
       Remembered(memoryOperations, eventType, eventSeq.mem + 1)
  /\ eventSeq' = [eventSeq EXCEPT !.mem = @ + 1]
  /\ UNCHANGED <<activeSearches, searchStats, durations>>
  /\ UNCHANGED statusVars
  /\ UNCHANGED <<now, cardVars, sendCalls, badFrames>>
  /\ UNCHANGED planVars
  /\ UNCHANGED <<manager, authToken, sockets, timers, cVars, sVars,
                 connectionStatus, logs, messages, exhausted, rejects>>

\* An out-of-band log.* event, routed to addLog
handleLogEvent(level) ==
  /\ eventSeq.log < MaxLogEvents
  /\ logs' = addLog(logs, level, eventSeq.log + 1)
  /\ eventSeq' = [eventSeq EXCEPT !.log = @ + 1]
  /\ UNCHANGED <<activeSearches, searchStats, durations, memoryOperations>>
  /\ UNCHANGED statusVars
  /\ UNCHANGED <<now, cardVars, sendCalls, badFrames>>
  /\ UNCHANGED planVars
  /\ UNCHANGED <<manager, authToken, sockets, timers, cVars, sVars,
                 connectionStatus, messages, exhausted, rejects>>

\* ---- system status and intents
MaxIntents == 1       \* intent.classified events in a run

\* systemState, queueSize, activePlans, terminalCount as declared
IdleSystem ==
  [state |-> "idle", queueSize |-> 0, activePlans |-> 0, terminalCount |-> 0]

\* Payloads of system.status, the second without state
BusyStatus ==
  [state |-> "processing", queue_size |-> 1, active_plans |-> 1,
   terminal_count |-> 1]
BareStatus == [queue_size |-> 2]

\* data.f || fallback, for a field that may be missing
OrElse(data, f, fallback) == IF f \in DOMAIN data THEN data[f] ELSE fallback

handleSystemStatus(data) ==
  /\ systemState' = [state |-> OrElse(data, "state", "idle"),
                     queueSize |-> OrElse(data, "queue_size", 0),
                     activePlans |-> OrElse(data, "active_plans", 0),
                     terminalCount |-> OrElse(data, "terminal_count", 0)]
  /\ UNCHANGED <<lastIntent, intentStats>>
  /\ UNCHANGED <<activeSearches, searchStats, durations, memoryOperations,
                 eventSeq>>
  /\ UNCHANGED <<now, cardVars, sendCalls, badFrames>>
  /\ UNCHANGED wsVars
  /\ UNCHANGED planVars

handleStateChange(data) ==
  /\ systemState' = [systemState EXCEPT
                       !.state = OrElse(data, "new_state", "idle")]
  /\ UNCHANGED <<lastIntent, intentStats>>
  /\ UNCHANGED <<activeSearches, searchStats, durations, memoryOperations,
                 eventSeq>>
  /\ UNCHANGED <<now, cardVars, sendCalls, badFrames>>
  /\ UNCHANGED wsVars
  /\ UNCHANGED planVars

handleQueueUpdate(data) ==
  /\ systemState' = [systemState EXCEPT
                       !.queueSize = OrElse(data, "queue_size", 0)]
  /\ UNCHANGED <<lastIntent, intentStats>>
  /\ UNCHANGED <<activeSearches, searchStats, durations, memoryOperations,
                 eventSeq>>
  /\ UNCHANGED <<now, cardVars, sendCalls, badFrames>>
  /\ UNCHANGED wsVars
  /\ UNCHANGED planVars

handleSystemEvent(eventType, data) ==
  CASE eventType = "system.status" -> handleSystemStatus(data)
    [] eventType = "system.state_change" -> handleStateChange(data)
    [] eventType = "system.queue_update" -> handleQueueUpdate(data)
    [] OTHER -> UNCHANGED vars

NoIntent == [null |-> TRUE]       \* lastIntent === null

\* Payload of the intent events
ChatIntent == [input |-> "hi", intent |-> "chat", fast_path_used |-> TRUE]

handleIntentClassified(data) ==
  /\ intentStats.total < MaxIntents
  /\ lastIntent' = [input |-> data.input, intent |-> data.intent,
                    fast_path_used |-> data.fast_path_used]
  /\ intentStats' =
       IF data.fast_path_used
       THEN [intentStats EXCEPT !.total = @ + 1, !.fastPath = @ + 1]
       ELSE [intentStats EXCEPT !.total = @ + 1, !.llmPath = @ + 1]
  /\ UNCHANGED systemState
  /\ UNCHANGED <<activeSearches, searchStats, durations, memoryOperations,
                 eventSeq>>
  /\ UNCHANGED <<now, cardVars, sendCalls, badFrames>>
  /\ UNCHANGED wsVars
  /\ UNCHANGED planVars

handleIntentEvent(eventType, data) ==
  CASE eventType = "intent.classified" -> handleIntentClassified(data)
    [] OTHER -> UNCHANGED vars

handleSearchEvent(eventType, data) ==
  CASE eventType = "search.query" -> handleSearchQuery(data)
    [] eventType = "search.results" -> handleSearchResults(data)
    [] eventType = "search.cache_hit" -> handleSearchCacheHit(data)
    [] eventType = "search.failed" -> handleSearchFailed(data)
    [] OTHER -> UNCHANGED vars

TelemetryIdle ==
  /\ activeSearches = <<>>
  /\ searchStats = [total |-> 0, cacheHits |-> 0, avgDuration |-> Zero]
  /\ durations = [sum |-> 0, count |-> 0]
  /\ memoryOperations = <<>>
  /\ eventSeq = [log |-> 0, mem |-> 0]
  /\ systemState = IdleSystem
  /\ lastIntent = NoIntent
  /\ intentStats = [total |-> 0, fastPath |-> 0, llmPath |-> 0]

\* ================================== chat turns and the message routers
MaxTurns     == 2     \* chat turns before clearMessages is needed
MaxBadFrames == 1     \* unparseable frames delivered in a run

UserText      == "hi"       \* the text typed into the input bar
AssistantText == "yo"       \* content of an assistant_message frame

\* ---- the chat store's own operations
addUserMessage(content) ==
  /\ Len(messages) < MaxTurns
  /\ messages' = addMessage(messages, [role |-> "user", content |-> content])
  /\ UNCHANGED uiVars
  /\ UNCHANGED planVars
  /\ UNCHANGED <<manager, authToken, sockets, timers, cVars, sVars,
                 connectionStatus, logs, exhausted, rejects>>

addAssistantMessage(content) ==
  /\ Len(messages) < MaxTurns
  /\ messages' =
       addMessage(messages, [role |-> "assistant", content |-> content])
  /\ UNCHANGED uiVars
  /\ UNCHANGED planVars
  /\ UNCHANGED <<manager, authToken, sockets, timers, cVars, sVars,
                 connectionStatus, logs, exhausted, rejects>>

addSystemNote(content) ==
  /\ Len(messages) < MaxTurns
  /\ messages' = addSystemMessage(messages, content)
  /\ UNCHANGED uiVars
  /\ UNCHANGED planVars
  /\ UNCHANGED <<manager, authToken, sockets, timers, cVars, sVars,
                 connectionStatus, logs, exhausted, rejects>>

\* ---- useWebSocket.js
\* ws.onmessage of socket i -> handleMessage, in-band assistant_message: the
\* turn is handed over with a type and no role
C_assistantMessage(i, content) ==
  /\ manager = "composable"
  /\ i \in 1..Len(sockets)
  /\ sockets[i].rs = "OPEN"
  /\ Len(messages) < MaxTurns
  /\ messages' =
       addMessage(messages, [type |-> "assistant", content |-> content])
  /\ UNCHANGED uiVars
  /\ UNCHANGED planVars
  /\ UNCHANGED <<manager, authToken, sockets, timers, cVars, sVars,
                 connectionStatus, logs, exhausted, rejects>>

NoSend == [null |-> TRUE]

C_sendMessage_m(content) ==
  /\ manager = "composable"
  /\ Len(messages) < MaxTurns
  /\ LET ms == addMessage(messages, [type |-> "user", content |-> content])
         f  == [type |-> "user_message", token |-> NoToken]
         r  == C_send(c_isConnected, c_ws, sockets, f)
     IN /\ messages' = IF r.ret THEN ms ELSE messages
        /\ sockets' = r.sockets
        /\ sendCalls' = [type |-> f.type, content |-> content,
                         turns |-> Len(ms), ret |-> r.ret, tx |-> r.tx]
  /\ UNCHANGED <<now, cardVars, telemetryVars, badFrames>>
  /\ UNCHANGED planVars
  /\ UNCHANGED <<manager, authToken, timers, cVars, sVars, connectionStatus,
                 logs, exhausted, rejects>>

\* sendMessage(content): the turn is appended, then the frame is handed to
\* send.  sendCalls records the frame, the number of turns in the log when
\* send was called, and what send did.
C_sendMessage(content) ==
  /\ manager = "composable"
  /\ Len(messages) < MaxTurns
  /\ LET ms == addMessage(messages, [type |-> "user", content |-> content])
         f  == [type |-> "user_message", token |-> NoToken]
         r  == C_send(c_isConnected, c_ws, sockets, f)
     IN /\ messages' = ms
        /\ sockets' = r.sockets
        /\ sendCalls' = [type |-> f.type, content |-> content,
                         turns |-> Len(ms), ret |-> r.ret, tx |-> r.tx]
  /\ UNCHANGED <<now, cardVars, telemetryVars, badFrames>>
  /\ UNCHANGED planVars
  /\ UNCHANGED <<manager, authToken, timers, cVars, sVars, connectionStatus,
                 logs, exhausted, rejects>>

C_badFrame_m(i) ==
  /\ manager = "composable"
  /\ i \in 1..Len(sockets)
  /\ sockets[i].rs = "OPEN"
  /\ badFrames.count < MaxBadFrames
  /\ badFrames' = [count |-> badFrames.count + 1, turns |-> Len(messages)]
  /\ sockets' = CloseSocket(i, sockets)
  /\ UNCHANGED <<now, cardVars, sendCalls, telemetryVars>>
  /\ UNCHANGED planVars
  /\ UNCHANGED <<manager, authToken, timers, cVars, sVars, storeVars,
                 exhausted, rejects>>

\* ws.onmessage of socket i with data that JSON.parse rejects: the catch
\* logs to the console.  badFrames counts the frames and keeps the number of
\* turns in the log when the last one came.
C_badFrame(i) ==
  /\ manager = "composable"
  /\ i \in 1..Len(sockets)
  /\ sockets[i].rs = "OPEN"
  /\ badFrames.count < MaxBadFrames
  /\ badFrames' = [count |-> badFrames.count + 1, turns |-> Len(messages)]
  /\ UNCHANGED <<now, cardVars, sendCalls, telemetryVars>>
  /\ UNCHANGED planVars
  /\ UNCHANGED wsVars

\* ---- stores/websocket.js
\* ws.onmessage of socket i -> handleMessage, assistant_message
S_assistantMessage(i, content) ==
  /\ manager = "store"
  /\ i \in 1..Len(sockets)
  /\ sockets[i].rs = "OPEN"
  /\ Len(messages) < MaxTurns
  /\ messages' = addMessage(messages, [id |-> now, role |-> "assistant",
                                       content |-> content])
  /\ UNCHANGED uiVars
  /\ UNCHANGED planVars
  /\ UNCHANGED <<manager, authToken, sockets, timers, cVars, sVars,
                 connectionStatus, logs, exhausted, rejects>>

\* ws.onmessage of socket i -> handleMessage with data that JSON.parse
\* rejects: the catch logs to the console
S_badFrame(i) ==
  /\ manager = "store"
  /\ i \in 1..Len(sockets)
  /\ sockets[i].rs = "OPEN"
  /\ badFrames.count < MaxBadFrames
  /\ badFrames' = [count |-> badFrames.count + 1, turns |-> Len(messages)]
  /\ UNCHANGED <<now, cardVars, sendCalls, telemetryVars>>
  /\ UNCHANGED planVars
  /\ UNCHANGED wsVars

\* ws.onmessage of socket i -> handleMessage -> handleOOBEvent with
\* planning.needs_input: planningStore.handlePlanningEvent(eventType, data),
\* whose switch has no case for it.  The interaction store is not called.
C_needsInput(i, data) ==
  /\ manager = "composable"
  /\ i \in 1..Len(sockets)
  /\ sockets[i].rs = "OPEN"
  /\ presented' = presented \cup {data.interactionId}
  /\ UNCHANGED <<pendingQuestion, interactionHistory, card, shownAt,
                 resolveCalls>>
  /\ UNCHANGED <<now, sendCalls, telemetryVars, badFrames>>
  /\ UNCHANGED planVars
  /\ UNCHANGED wsVars

\* ws.onmessage of socket i -> handleMessage with planning.needs_input:
\* interactionStore.setPendingQuestion(message.data)
S_needsInput(i, data) ==
  /\ manager = "store"
  /\ i \in 1..Len(sockets)
  /\ sockets[i].rs = "OPEN"
  /\ setPendingQuestion(data)

\* ---- the composable's router
MaxRouted == 1        \* search.query, memory and log frames routed in a
                      \* run, each, and chat turns appended by frames

\* The event types the peer sends, by the prefix they start with
Prefixed(prefix) ==
  CASE prefix = "planning." ->
         {"planning.plan_created", "planning.plan_approved",
          "planning.plan_rejected", "planning.plan_started",
          "planning.step_started", "planning.step_progress",
          "planning.step_completed", "planning.step_failed",
          "planning.plan_completed", "planning.plan_failed",
          "planning.needs_input"}
    [] prefix = "search." ->
         {"search.query", "search.results", "search.cache_hit",
          "search.failed"}
    [] prefix = "intent." ->
         {"intent.classifying", "intent.classified", "intent.routing"}
    [] prefix = "memory." -> {"memory.store"}
    [] prefix = "system." ->
         {"system.status", "system.state_change", "system.queue_update"}
    [] prefix = "log." -> {"log.info"}
    [] OTHER -> {}

\* eventType.startsWith(prefix)
StartsWith(eventType, prefix) == eventType \in Prefixed(prefix)

\* message.channel === 'oob'
IsOOB_m(message) == FALSE
IsOOB(message) == "channel" \in DOMAIN message /\ message.channel = "oob"

\* Frames of a run.  Out-of-band: events of every namespace, one of a
\* namespace no handler knows, and two that carry the type of an in-band
\* message.  In-band: the four handled types, an unknown type, and one
\* that carries the type of a planning event.
OOB(type, data) == [channel |-> "oob", type |-> type, data |-> data]
OOBFrames ==
  {OOB("planning.plan_started", PlanNoSteps),
   OOB("planning.needs_input", TimedQuestion),
   OOB("search.query", [query |-> AskedQuery]),
   OOB("intent.classified", ChatIntent),
   OOB("intent.routing", ChatIntent),
   OOB("memory.store", [key |-> "k"]),
   OOB("system.status", BusyStatus),
   OOB("system.status", BareStatus),
   OOB("log.info", [level |-> "INFO"]),
   OOB("metrics.tick", [n |-> 1]),
   [channel |-> "oob", type |-> "assistant_message",
    content |-> AssistantText],
   [channel |-> "oob", type |-> "connection_established"]}
InBandFrames ==
  {[type |-> "connection_established"],
   [type |-> "assistant_message", content |-> AssistantText],
   [type |-> "plan_approval_received", approved |-> TRUE],
   [type |-> "error", error |-> "boom"],
   [type |-> "pong"],
   [type |-> "planning.plan_started", data |-> PlanNoSteps]}
Inbound == OOBFrames \cup InBandFrames

\* handleOOBEvent(event)
handleOOBEvent(event) ==
  LET eventType == event.type
      data == event.data
  IN IF StartsWith(eventType, "planning.")
     THEN handlePlanningEvent(eventType, data)
     ELSE IF StartsWith(eventType, "search.")
     THEN handleSearchEvent(eventType, data)
     ELSE IF StartsWith(eventType, "intent.")
     THEN handleIntentEvent(eventType, data)
     ELSE IF StartsWith(eventType, "memory.")
     THEN handleMemoryEvent(eventType)
     ELSE IF StartsWith(eventType, "system.")
     THEN handleSystemEvent(eventType, data)
     ELSE IF StartsWith(eventType, "log.")
     THEN handleLogEvent(data.level)
     ELSE UNCHANGED vars

\* handleMessage, case 'plan_approval_received'
C_planApprovalReceived(i, approved) ==
  /\ Len(messages) < MaxTurns
  /\ messages' = addSystemMessage(messages, IF approved THEN "Plan approved"
                                            ELSE "Plan rejected")
  /\ UNCHANGED uiVars
  /\ UNCHANGED planVars
  /\ UNCHANGED <<manager, authToken, sockets, timers, cVars, sVars,
                 connectionStatus, logs, exhausted, rejects>>

\* handleMessage, case 'error': addLog with level ERROR, category SERVER
C_errorFrame(i) ==
  /\ eventSeq.log < MaxLogEvents
  /\ logs' = addLog(logs, "ERROR", eventSeq.log + 1)
  /\ eventSeq' = [eventSeq EXCEPT !.log = @ + 1]
  /\ UNCHANGED <<activeSearches, searchStats, durations, memoryOperations>>
  /\ UNCHANGED statusVars
  /\ UNCHANGED <<now, cardVars, sendCalls, badFrames>>
  /\ UNCHANGED planVars
  /\ UNCHANGED <<manager, authToken, sockets, timers, cVars, sVars,
                 connectionStatus, messages, exhausted, rejects>>

\* The frames of one kind a run routes
FrameBudget(message) ==
  CASE message.type = "search.query" -> searchStats.total < MaxRouted
    [] message.type = "memory.store" -> eventSeq.mem < MaxRouted
    [] message.type \in {"log.info", "error"} -> eventSeq.log < MaxRouted
    [] message.type \in {"assistant_message", "plan_approval_received"} ->
         Len(messages) < MaxRouted
    [] OTHER -> TRUE

\* ws.onmessage of socket i -> handleMessage(message), for a frame that
\* JSON.parse accepts
C_handleMessage(i, message) ==
  /\ manager = "composable"
  /\ i \in 1..Len(sockets)
  /\ sockets[i].rs = "OPEN"
  /\ FrameBudget(message)
  /\ IF IsOOB(message)
     THEN handleOOBEvent(message)
     ELSE CASE message.type = "connection_established" -> C_onmessage(i)
            [] message.type = "assistant_message" ->
                 C_assistantMessage(i, message.content)
            [] message.type = "plan_approval_received" ->
                 C_planApprovalReceived(i, message.approved)
            [] message.type = "error" -> C_errorFrame(i)
            [] OTHER -> UNCHANGED vars

UiIdle ==
  /\ now = 0
  /\ CardIdle
  /\ TelemetryIdle
  /\ sendCalls = NoSend
  /\ badFrames = [count |-> 0, turns |-> 0]

Init ==
  /\ manager \in {"composable", "store"}
  /\ authToken \in IF manager = "store" THEN Tokens \cup {NoToken}
                                         ELSE {NoToken}
  /\ sockets = <<>>
  /\ timers = <<>>
  /\ c_ws = NullWs
  /\ c_isConnected = FALSE
  /\ c_isConnecting = FALSE
  /\ c_reconnectAttempts = 0
  /\ c_reconnectTimer = "null"
  /\ s_ws = NullWs
  /\ s_isConnected = FALSE
  /\ s_reconnectAttempts = 0
  /\ s_reconnectDelay = BaseDelay
  /\ s_retries = 0
  /\ connectionStatus = "disconnected"
  /\ logs = <<>>
  /\ messages = <<>>
  /\ exhausted = FALSE
  /\ rejects = 0
  /\ PlanIdle
  /\ payloads = StepRun
  /\ UiIdle

Next ==
  \/ \E t \in Tokens : login(t)
  \/ logout
  \/ clearLogs
  \/ clearMessages
  \/ \E t \in Tokens : C_connect(t)
  \/ \E i \in SockIds : C_onopen(i)
  \/ \E i \in SockIds : C_onmessage(i)
  \/ \E i \in SockIds, err \in BOOLEAN : C_close(i, err)
  \/ C_timer
  \/ C_disconnect
  \/ \E f \in UserFrames : C_sendFrame(f)
  \/ S_connect
  \/ \E i \in SockIds : S_onopen(i)
  \/ \E i \in SockIds : S_onmessage(i)
  \/ \E i \in SockIds, err \in BOOLEAN : S_close(i, err)
  \/ \E k \in 1..MaxTimers : S_timer(k)
  \/ S_disconnect
  \/ \E f \in UserFrames : S_send(f)

Spec == Init /\ [][Next]_vars

\* The planning store alone: no connection manager acts
WsIdle ==
  /\ manager = "composable"
  /\ authToken = NoToken
  /\ sockets = <<>>
  /\ timers = <<>>
  /\ c_ws = NullWs
  /\ c_isConnected = FALSE
  /\ c_isConnecting = FALSE
  /\ c_reconnectAttempts = 0
  /\ c_reconnectTimer = "null"
  /\ s_ws = NullWs
  /\ s_isConnected = FALSE
  /\ s_reconnectAttempts = 0
  /\ s_reconnectDelay = BaseDelay
  /\ s_retries = 0
  /\ connectionStatus = "disconnected"
  /\ logs = <<>>
  /\ messages = <<>>
  /\ exhausted = FALSE
  /\ rejects = 0

PlanInit ==
  /\ WsIdle
  /\ PlanIdle
  /\ payloads = StepRun
  /\ UiIdle

PlanNext ==
  \/ \E data \in payloads : handlePlanCreated(data)
  \/ \E id \in PlanIds : handlePlanApproved([plan_id |-> id])
  \/ \E id \in PlanIds : handlePlanRejected([plan_id |-> id])
  \/ \E data \in payloads : handlePlanStarted(data)
  \/ \E data \in StepEvents : handleStepStarted(data)
  \/ \E data \in StepEvents : handleStepProgress(data)
  \/ \E data \in StepEvents : handleStepCompleted(data)
  \/ \E data \in StepEvents : handleStepFailed(data)
  \/ \E id \in PlanIds : handlePlanCompleted([plan_id |-> id])
  \/ \E id \in PlanIds : handlePlanFailed([plan_id |-> id])
  \/ GraceTimer
  \/ clearActivePlan
  \/ clearPendingApproval

PlanSpec == PlanInit /\ [][PlanNext]_vars

\* The same store fed a long run of plans without steps, long enough for the
\* history to reach its cap.
CapInit ==
  /\ WsIdle
  /\ PlanIdle
  /\ payloads = LongRun
  /\ UiIdle

CapSpec == CapInit /\ [][PlanNext]_vars

\* The interaction store and the question card it feeds
CardInit ==
  /\ WsIdle
  /\ PlanIdle
  /\ payloads = StepRun
  /\ UiIdle

CardNext ==
  \/ \E data \in Questions : setPendingQuestion(data)
  \/ clearPendingQuestion
  \/ Tick
  \/ submitResponse
  \/ \E inputValue \in {"", UserText} : submitInput(inputValue)
  \/ skipQuestion
  \/ Advance

CardSpec == CardInit /\ [][CardNext]_vars

\* The chat store alone
ChatNext ==
  \/ addUserMessage(UserText)
  \/ addAssistantMessage(AssistantText)
  \/ addSystemNote("Connected to JARVIS")
  \/ clearMessages
  \/ Advance

ChatSpec == CardInit /\ [][ChatNext]_vars

\* The search telemetry of the system store
SearchNext ==
  \/ handleSearchQuery([query |-> AskedQuery])
  \/ \E q \in SearchQueries, d \in Durations :
       handleSearchResults([query |-> q, duration_ms |-> d])
  \/ \E q \in SearchQueries : handleSearchCacheHit([query |-> q])
  \/ \E q \in SearchQueries : handleSearchFailed([query |-> q])
  \/ clearSearches

SearchSpec == CardInit /\ [][SearchNext]_vars

\* The rolling logs of the system store
LogNext ==
  \/ \E eventType \in MemoryTypes : handleMemoryEvent(eventType)
  \/ \E level \in LogLevels : handleLogEvent(level)
  \/ clearLogs

LogSpec == CardInit /\ [][LogNext]_vars

\* The routers of the two managers on sockets that are opened by connect()
\* and closed by disconnect() only
RouterInit ==
  /\ Init
  /\ manager = "store" => authToken \in Tokens

RouterNext ==
  \/ \E t \in Tokens : C_connect(t)
  \/ \E i \in SockIds : C_onopen(i)
  \/ \E i \in SockIds : C_onmessage(i)
  \/ \E i \in SockIds : C_assistantMessage(i, AssistantText)
  \/ \E i \in SockIds : C_badFrame(i)
  \/ C_sendMessage(UserText)
  \/ C_disconnect
  \/ S_connect
  \/ \E i \in SockIds : S_onopen(i)
  \/ \E i \in SockIds : S_onmessage(i)
  \/ \E i \in SockIds : S_assistantMessage(i, AssistantText)
  \/ \E i \in SockIds : S_badFrame(i)
  \/ S_disconnect
  \/ clearMessages

RouterSpec == RouterInit /\ [][RouterNext]_vars

\* Questions arriving over a connection of either manager, and the card
\* coming and going while the connection is in use
InteractionNext ==
  \/ \E t \in Tokens : C_connect(t)
  \/ \E i \in SockIds : C_onopen(i)
  \/ \E i \in SockIds : C_onmessage(i)
  \/ \E i \in SockIds, data \in Questions : C_needsInput(i, data)
  \/ S_connect
  \/ \E i \in SockIds : S_onopen(i)
  \/ \E i \in SockIds, data \in Questions : S_needsInput(i, data)
  \/ \E data \in Questions : setPendingQuestion(data)
  \/ clearPendingQuestion

InteractionSpec == RouterInit /\ [][InteractionNext]_vars

\* Frames of every kind arriving on a connection of the composable
FrameInit ==
  /\ Init
  /\ manager = "composable"

FrameNext ==
  \/ \E t \in Tokens : C_connect(t)
  \/ \E i \in SockIds : C_onopen(i)
  \/ \E i \in SockIds, message \in Inbound : C_handleMessage(i, message)

FrameSpec == FrameInit /\ [][FrameNext]_vars

\* ================================================================ claims
Frames == UserFrames \cup {AuthFrame(t) : t \in Tokens}

\* What the program holds, without the bookkeeping of the observers
SocketView ==
  [i \in 1..Len(sockets) |->
     [rs |-> sockets[i].rs, token |-> sockets[i].token,
      authSent |-> sockets[i].authSent]]
TimerView == [k \in 1..Len(timers) |-> timers[k].token]
ProgramView ==
  <<cVars, sVars, storeVars, authToken, SocketView, TimerView>>

\* The store's socket is connecting or open
S_Live ==
  s_ws # NullWs /\ ReadyState(s_ws, sockets) \in {"CONNECTING", "OPEN"}

\* C1: the close event of a socket closed by disconnect(), with no connect()
\* call since, arms no reconnect timer, in either manager.
CE_C1 ==
  [][ \A i \in SockIds, err \in BOOLEAN :
        /\ (C_close(i, err) /\ sockets[i].discFresh) => timers' = timers
        /\ (S_close(i, err) /\ sockets[i].discFresh) => timers' = timers
    ]_vars

\* C2: a reconnect timer that was pending when disconnect() was called, with
\* no connect() call since and a credential available, creates no socket
\* when it fires.
CE_C2 ==
  [][ /\ (C_timer /\ Head(timers).preDisc) => Len(sockets') = Len(sockets)
      /\ \A k \in 1..MaxTimers :
           (S_timer(k) /\ timers[k].preDisc /\ authToken # NoToken)
             => Len(sockets') = Len(sockets)
    ]_vars

\* C3: when the peer opens every automatic attempt and closes it after the
\* auth frame, the number of such attempts in a row stays within the
\* manager's maximum of reconnect attempts.
CE_C3 ==
  rejects <= MaxAttempts

\* C4: after the open handler of any socket has run, the attempt counter is
\* 0 and, in the store, the backoff delay is 1000.
Thm_C4 ==
  [][ \A i \in SockIds :
        /\ C_onopen(i) => c_reconnectAttempts' = 0
        /\ S_onopen(i) => (s_reconnectAttempts' = 0 /\
                           s_reconnectDelay' = 1000)
    ]_vars

\* A socket has opened in the store while a reconnect timer is still
\* pending: the open handler ran after a close had raised the counter and
\* doubled the delay.
Wit_C4 ==
  /\ manager = "store"
  /\ s_ws \in 1..Len(sockets)
  /\ sockets[s_ws].rs = "OPEN"
  /\ timers # <<>>
  /\ s_isConnected
  /\ s_reconnectAttempts = 0
  /\ s_reconnectDelay = 1000

\* C5: the attempt counter never exceeds the maximum, a close schedules a
\* retry only while the counter is below the maximum, and once the maximum
\* number of retries has been scheduled since the last open no close
\* schedules another one before the next open.
CE_C5 ==
  [][ /\ c_reconnectAttempts' <= MAX_RECONNECT_ATTEMPTS
      /\ s_reconnectAttempts' <= maxReconnectAttempts
      /\ \A i \in SockIds, err \in BOOLEAN :
           /\ (C_close(i, err) /\ Len(timers') > Len(timers))
                => (c_reconnectAttempts < MAX_RECONNECT_ATTEMPTS /\
                    ~exhausted)
           /\ (S_close(i, err) /\ Len(timers') > Len(timers))
                => (s_reconnectAttempts < maxReconnectAttempts /\
                    ~exhausted)
           /\ (C_close(i, err) /\
               c_reconnectAttempts >= MAX_RECONNECT_ATTEMPTS)
                => timers' = timers
           /\ (S_close(i, err) /\
               s_reconnectAttempts >= maxReconnectAttempts)
                => timers' = timers
    ]_vars

\* C6: a close event that arrives after the maximum number of retries was
\* used appends an ERROR entry to the system log and schedules no retry, in
\* either manager.
CE_C6 ==
  [][ \A i \in SockIds, err \in BOOLEAN :
        /\ (C_close(i, err) /\ exhausted /\
            c_reconnectAttempts >= MAX_RECONNECT_ATTEMPTS)
             => /\ timers' = timers
                /\ Len(logs') > Len(logs)
                /\ logs'[1].level = "ERROR"
        /\ (S_close(i, err) /\ exhausted /\
            s_reconnectAttempts >= maxReconnectAttempts)
             => /\ timers' = timers
                /\ Len(logs') > Len(logs)
                /\ logs'[1].level = "ERROR"
    ]_vars

\* C7: once the retries are exhausted a close schedules nothing, and the
\* close of a socket that an explicit connect() created and that never
\* opened schedules a retry again.
CE_C7 ==
  [][ \A i \in SockIds, err \in BOOLEAN :
        /\ (C_close(i, err) /\ exhausted /\
            c_reconnectAttempts >= MAX_RECONNECT_ATTEMPTS /\
            sockets[i].origin # "explicit")
             => timers' = timers
        /\ (S_close(i, err) /\ exhausted /\
            s_reconnectAttempts >= maxReconnectAttempts /\
            sockets[i].origin # "explicit")
             => timers' = timers
        /\ ((C_close(i, err) \/ S_close(i, err)) /\ exhausted /\
            sockets[i].origin = "explicit" /\
            sockets[i].rs = "CONNECTING")
             => Len(timers') = Len(timers) + 1
    ]_vars

\* C8: connect() called while the manager is connecting or connected creates
\* no socket and changes neither the flags, the attempt counter, the backoff
\* delay nor the pending timers.
Thm_C8 ==
  [][ /\ \A t \in Tokens :
           (C_connect(t) /\ (c_isConnecting \/ c_isConnected))
             => ProgramView' = ProgramView
      /\ (S_connect /\ (s_isConnected \/ S_Live))
           => ProgramView' = ProgramView
    ]_vars

\* The composable is connecting, a reconnect timer is pending, and a
\* component can call connect() with the credential.
Wit_C8 ==
  /\ manager = "composable"
  /\ c_isConnecting
  /\ c_ws \in 1..Len(sockets)
  /\ sockets[c_ws].rs = "CONNECTING"
  /\ c_reconnectAttempts > 0
  /\ timers # <<>>

\* C9: send returns true only when the frame was handed to the open socket,
\* and whenever the manager is not connected it returns false, transmits
\* nothing and changes nothing.
CE_C9 ==
  \A f \in Frames :
    /\ manager = "composable" =>
         LET r == C_send(c_isConnected, c_ws, sockets, f)
         IN /\ r.ret => r.tx
            /\ ~c_isConnected =>
                 (~r.ret /\ ~r.tx /\ r.sockets = sockets)
    /\ manager = "store" =>
         LET r == S_sendMessage(s_ws, sockets, f)
         IN /\ r.ret => r.tx
            /\ ~S_Live => (~r.ret /\ ~r.tx /\ r.sockets = sockets)

\* C10: a user_message or plan_approval frame is transmitted only on a
\* socket that has received connection_established.
CE_C10 ==
  \A f \in UserFrames :
    /\ manager = "composable" =>
         (C_send(c_isConnected, c_ws, sockets, f).tx
            => EstOf(c_ws, sockets))
    /\ manager = "store" =>
         (S_sendMessage(s_ws, sockets, f).tx => EstOf(s_ws, sockets))

\* C11: the open handler of a socket puts the auth frame on the wire of that
\* socket, in the turn of the open event, in either manager.
CE_C11 ==
  [][ \A i \in SockIds :
        /\ C_onopen(i) => sockets'[i].authSent
        /\ S_onopen(i) => sockets'[i].authSent
    ]_vars

\* ------------------------------------------------- planning store claims
TerminalStatus == {"completed", "failed"}

StepHandled(data) ==
  \/ handleStepStarted(data)
  \/ handleStepProgress(data)
  \/ handleStepCompleted(data)
  \/ handleStepFailed(data)

StatusRank(status) ==
  IF status = "pending" THEN 0 ELSE IF status = "in_progress" THEN 1 ELSE 2

\* C12: a step event never moves the status of a step of the active plan
\* backwards along pending -> in_progress -> {completed | failed}, and never
\* changes a status that is completed or failed.
CE_C12 ==
  [][ \A data \in StepEvents :
        (StepHandled(data) /\ activePlan # NoPlan) =>
          \A k \in 1..Len(activePlan.steps) :
            LET before == activePlan.steps[k].status
                after  == activePlan'.steps[k].status
            IN /\ StatusRank(after) >= StatusRank(before)
               /\ before \in TerminalStatus => after = before
    ]_vars

PlanFinished(id) ==
  \/ handlePlanCompleted([plan_id |-> id])
  \/ handlePlanFailed([plan_id |-> id])

\* C13: the plan history never holds more than 10 entries, and plan_completed
\* or plan_failed handled with an active plan puts the new entry first and
\* keeps the entries before it in their order, dropping from the old end.
CE_C13 ==
  [][ /\ Len(planHistory') <= 10
      /\ \A id \in PlanIds :
           (PlanFinished(id) /\ activePlan # NoPlan) =>
             /\ planHistory'[1] = HistoryEntry(activePlan')
             /\ \A k \in 2..Len(planHistory') :
                  planHistory'[k] = planHistory[k - 1]
    ]_vars

\* C14: a step event handled with no active plan, or naming no step of the
\* active plan, leaves the active plan, the pending approval and the plan
\* history as they were.
Thm_C14 ==
  [][ \A data \in StepEvents :
        (/\ StepHandled(data)
         /\ \/ activePlan = NoPlan
            \/ \A k \in 1..Len(activePlan.steps) :
                 activePlan.steps[k].id # data.step_id)
          => UNCHANGED <<activePlan, pendingApproval, planHistory>>
    ]_vars

\* A step event naming s9 can arrive while the active plan has a step, an
\* entry of the history shares its steps, and an approval is pending.
Wit_C14 ==
  /\ activePlan # NoPlan
  /\ activePlan.steps # <<>>
  /\ \A k \in 1..Len(activePlan.steps) : activePlan.steps[k].id # "s9"
  /\ planHistory # <<>>
  /\ planHistory[1].shared
  /\ pendingApproval # NoPlan

\* C15: a grace timer armed before the latest plan_started does not set the
\* active plan to none when it fires while a plan is active.
CE_C15 ==
  [][ (GraceTimer /\ Head(planTimers).superseded /\ activePlan # NoPlan)
        => activePlan' = activePlan
    ]_vars

\* C16: plan_started makes the plan of its payload the active plan with
\* status in_progress and leaves the pending approval as it was; a pending
\* approval becomes none only in plan_approved, plan_rejected or
\* clearPendingApproval.
Thm_C16 ==
  [][ /\ \A data \in payloads :
           handlePlanStarted(data) =>
             /\ activePlan' = [id |-> data.plan_id,
                               description |-> data.description,
                               steps |-> StepsOf(data),
                               status |-> "in_progress"]
             /\ pendingApproval' = pendingApproval
      /\ (pendingApproval # NoPlan /\ pendingApproval' = NoPlan) =>
           \/ clearPendingApproval
           \/ \E id \in PlanIds :
                \/ handlePlanApproved([plan_id |-> id])
                \/ handlePlanRejected([plan_id |-> id])
    ]_vars

\* plan_started was handled for a plan while another plan awaits approval.
Wit_C16 ==
  /\ pendingApproval # NoPlan
  /\ activePlan # NoPlan
  /\ activePlan.status = "in_progress"
  /\ activePlan.id # pendingApproval.id

\* C17: plan_created sets the pending approval to the id, description and
\* steps of its payload (no steps in the payload gives the empty list),
\* whatever was pending before, and changes neither the active plan nor the
\* history; the pending approval and the active plan are each one plan or
\* none.
Thm_C17 ==
  [][ /\ \A data \in payloads :
           handlePlanCreated(data) =>
             /\ pendingApproval' =
                  [id |-> data.plan_id,
                   description |-> data.description,
                   steps |-> IF "steps" \in DOMAIN data
                             THEN data.steps ELSE <<>>]
             /\ UNCHANGED <<activePlan, planHistory>>
      /\ \/ pendingApproval' = NoPlan
         \/ DOMAIN pendingApproval' = {"id", "description", "steps"}
      /\ \/ activePlan' = NoPlan
         \/ DOMAIN activePlan' = {"id", "description", "steps", "status"}
    ]_vars

\* plan_created for a payload without steps was handled while a plan was
\* active and the history was not empty.
Wit_C17 ==
  /\ pendingApproval # NoPlan
  /\ pendingApproval.id = "p2"
  /\ pendingApproval.steps = <<>>
  /\ activePlan # NoPlan
  /\ activePlan.id = "p1"
  /\ planHistory # <<>>

\* C18: plan_approved or plan_rejected naming a plan other than the pending
\* one leaves the pending approval in place, and plan_completed or
\* plan_failed naming a plan other than the active one changes neither the
\* active plan nor the history.
CE_C18 ==
  [][ \A id \in PlanIds :
        /\ ( /\ \/ handlePlanApproved([plan_id |-> id])
                \/ handlePlanRejected([plan_id |-> id])
             /\ pendingApproval # NoPlan
             /\ pendingApproval.id # id )
             => pendingApproval' = pendingApproval
        /\ ( /\ \/ handlePlanCompleted([plan_id |-> id])
                \/ handlePlanFailed([plan_id |-> id])
             /\ activePlan # NoPlan
             /\ activePlan.id # id )
             => UNCHANGED <<activePlan, planHistory>>
    ]_vars

\* C19: plan_completed or plan_failed handled for the active plan puts a copy
\* of the plan with its terminal status at the head of the history in the
\* same step, and from then on the active plan keeps that terminal status
\* until the grace timer armed for it fires, unless a plan_started, a further
\* plan_completed or plan_failed, or clearActivePlan is handled first.
CE_C19 ==
  [][ /\ \A id \in PlanIds :
           (PlanFinished(id) /\ activePlan # NoPlan) =>
             /\ planHistory' # <<>>
             /\ Head(planHistory').id = activePlan.id
             /\ Head(planHistory').status = activePlan'.status
             /\ activePlan'.status \in TerminalStatus
      /\ ( /\ activePlan # NoPlan
           /\ activePlan.status \in TerminalStatus
           /\ ~ \E data \in payloads : handlePlanStarted(data)
           /\ ~ \E id \in PlanIds : PlanFinished(id)
           /\ ~ clearActivePlan
           /\ ~ (GraceTimer /\ ~ Head(planTimers).superseded) )
           => /\ activePlan' # NoPlan
              /\ activePlan'.status = activePlan.status
    ]_vars

\* C20: plan_started makes a plan the active plan only if a plan_approved for
\* that plan was handled while it was the pending approval.
CE_C20 ==
  [][ \A data \in payloads :
        handlePlanStarted(data) => data.plan_id \in approvedIds
    ]_vars


\* ------------------------------------------------- interaction claims
\* The interaction with this id is the live one or is in the history
Kept(id) ==
  \/ pendingQuestion # NoQuestion /\ pendingQuestion.interactionId = id
  \/ \E k \in 1..Len(interactionHistory) :
       interactionHistory[k].interactionId = id

\* C21: every interaction handed to the store is the live interaction or is
\* in the interaction history: presenting a new one while another is live
\* puts the preempted one into the history.
CE_C21 == \A id \in presented : Kept(id)


\* C22: a submit, choice or skip on the question card transmits a response
\* frame, leaves no live interaction and appends the resolved interaction to
\* the interaction history.
CE_C22 ==
  [][ resolveCalls' = resolveCalls + 1 =>
        /\ sendCalls' # NoSend
        /\ sendCalls' # sendCalls
        /\ pendingQuestion' = NoQuestion
        /\ interactionHistory' = Append(interactionHistory, pendingQuestion)
    ]_vars


\* C23: the countdown callback that finds the timeout elapsed cancels the
\* interval and shows 0; it sends nothing, resolves nothing, and leaves the
\* live interaction and the history as they were.  A card that shows 0 with
\* its interval cancelled keeps showing 0 while it is rendered.
Thm_C23 ==
  [][ /\ (Tick /\ card.endTime - now <= 0) =>
           /\ ~ card'.interval
           /\ card'.timeoutRemaining = 0
           /\ card'.mounted
           /\ card'.endTime = card.endTime
           /\ UNCHANGED <<pendingQuestion, interactionHistory, presented,
                          shownAt, resolveCalls, sendCalls, now>>
           /\ UNCHANGED <<wsVars, planVars, telemetryVars, badFrames>>
      /\ ( /\ card.mounted
           /\ ~ card.interval
           /\ card.timeoutRemaining = 0
           /\ card'.mounted )
           => card'.timeoutRemaining = 0
    ]_vars

\* The timeout of the live interaction has elapsed and the callback has run
Wit_C23 ==
  /\ pendingQuestion = TimedQuestion
  /\ card.mounted
  /\ card.endTime > 0
  /\ now >= card.endTime
  /\ ~ card.interval
  /\ card.timeoutRemaining = 0
  /\ resolveCalls = 0


\* The remaining seconds to show at clock time t for an end time endTime
Remaining(endTime, t) ==
  IF endTime - t <= 0 THEN 0 ELSE Ceil(endTime - t, TickUnit)

\* C24: at each tick the card of a timed question shows the time left to the
\* end time fixed when that question was shown, whatever ticks fired before;
\* while the card is rendered the value shown never increases and is never
\* negative.
CE_C24 ==
  [][ /\ (Tick /\ pendingQuestion.timeoutMs > 0) =>
           card'.timeoutRemaining =
             Remaining(shownAt + pendingQuestion.timeoutMs, now)
      /\ (card.mounted /\ card'.mounted) =>
           /\ card'.timeoutRemaining <= card.timeoutRemaining
           /\ card'.timeoutRemaining >= 0
    ]_vars


\* ---------------------------------------------------------- chat claims
\* C25: the turns of the chat log have pairwise distinct ids.
CE_C25 ==
  \A i, j \in 1..Len(messages) : i # j => messages[i].id # messages[j].id


\* C26: sendMessage appends the user turn to the chat log in every connection
\* state, the turn is in the log when the user_message frame is handed to
\* send, and it stays there when send fails.
Thm_C26 ==
  [][ C_sendMessage(UserText) =>
        /\ messages' = Append(messages, [id |-> now, role |-> "user",
                                         content |-> UserText])
        /\ sendCalls'.type = "user_message"
        /\ sendCalls'.content = UserText
        /\ sendCalls'.turns = Len(messages) + 1
    ]_vars

\* sendMessage was called while not connected: send failed, the turn is there
Wit_C26 ==
  /\ sendCalls # NoSend
  /\ ~ sendCalls.ret
  /\ ~ c_isConnected
  /\ messages # <<>>
  /\ messages[Len(messages)].role = "user"
  /\ messages[Len(messages)].content = UserText


\* ----------------------------------------------------- telemetry claims
\* C27: the running average duration is a finite number and, once a
\* search.results event was handled, equals the arithmetic mean of the
\* duration values reported so far.
CE_C27 ==
  /\ Finite(searchStats.avgDuration)
  /\ durations.count > 0 =>
       searchStats.avgDuration.num * durations.count =
         durations.sum * searchStats.avgDuration.den


\* C28: the search activity window never holds more than 10 entries, and a
\* search event that shortens it keeps the newest entries in their order.
CE_C28 ==
  [][ /\ Len(activeSearches') <= 10
      /\ ( /\ ~ clearSearches
           /\ Len(activeSearches') < Len(activeSearches) ) =>
           \A k \in 1..Len(activeSearches') :
             activeSearches'[k].query =
               activeSearches[Len(activeSearches) - Len(activeSearches') + k]
                 .query
    ]_vars


\* The sequence after value was put first into s under a cap
PutFirst(s, value, cap) ==
  IF Len(s) < cap THEN <<value>> \o s
  ELSE <<value>> \o SubSeq(s, 1, cap - 1)

\* C29: the memory-operation log holds at most 20 entries and the system log
\* at most 100, newest first; an insertion puts the new entry first, keeps
\* the others in their order and, at the cap, drops the oldest one only; the
\* system log becomes empty only in clearLogs.
Thm_C29 ==
  [][ /\ Len(memoryOperations') <= 20
      /\ Len(logs') <= 100
      /\ \A eventType \in MemoryTypes :
           handleMemoryEvent(eventType) =>
             memoryOperations' =
               PutFirst(memoryOperations,
                        [type |-> eventType, data |-> eventSeq.mem + 1], 20)
      /\ \A level \in LogLevels :
           handleLogEvent(level) =>
             logs' = PutFirst(logs, [level |-> level,
                                     category |-> eventSeq.log + 1], 100)
      /\ \A k \in 1..(Len(logs') - 1) :
           logs'[k].category > logs'[k + 1].category
      /\ \A k \in 1..(Len(memoryOperations') - 1) :
           memoryOperations'[k].data > memoryOperations'[k + 1].data
      /\ (logs # <<>> /\ logs' = <<>>) => clearLogs
    ]_vars

\* Both logs are full and each has taken one entry beyond its cap
Wit_C29 ==
  /\ Len(logs) = 100
  /\ logs[1].category = 101
  /\ logs[100].category = 2
  /\ Len(memoryOperations) = 20
  /\ memoryOperations[1].data = 21
  /\ memoryOperations[20].data = 2


\* ------------------------------------------------------- router claims
\* C30: a frame that cannot be parsed changes nothing in the stores, the
\* sockets or the connection state of either manager, and an
\* assistant_message delivered after it still adds its turn to the chat log.
Thm_C30 ==
  [][ \A i \in SockIds :
        /\ (C_badFrame(i) \/ S_badFrame(i)) =>
             /\ UNCHANGED <<wsVars, planVars>>
             /\ UNCHANGED <<now, cardVars, sendCalls, telemetryVars>>
        /\ ( /\ badFrames.count > 0
             /\ \/ C_assistantMessage(i, AssistantText)
                \/ S_assistantMessage(i, AssistantText) ) =>
             /\ Len(messages') = Len(messages) + 1
             /\ messages'[Len(messages')].content = AssistantText
    ]_vars

\* An unparseable frame came on a socket that is still open, and an
\* assistant_message was handled after it
Wit_C30 ==
  /\ badFrames.count > 0
  /\ Len(messages) > badFrames.turns
  /\ messages[Len(messages)].content = AssistantText
  /\ \E i \in 1..Len(sockets) : sockets[i].rs = "OPEN"


\* ------------------------------------------- planning store claims, II
\* C34: plan_completed or plan_failed handled while the active plan is
\* already completed or failed changes neither the active plan nor the
\* history.
CE_C34 ==
  [][ \A id \in PlanIds :
        ( /\ PlanFinished(id)
          /\ activePlan # NoPlan
          /\ activePlan.status \in TerminalStatus )
          => UNCHANGED <<activePlan, planHistory>>
    ]_vars

\* C35: a step event handled while the finished plan is still the active
\* plan leaves the entries of the history as they were.
CE_C35 ==
  [][ \A data \in StepEvents :
        ( /\ StepHandled(data)
          /\ activePlan # NoPlan
          /\ activePlan.status \in TerminalStatus )
          => planHistory' = planHistory
    ]_vars


\* ------------------------------------------------ chat router claims, II
\* C32: an assistant_message frame handled by either router appends exactly
\* one turn, with role assistant and the content of the frame.
CE_C32 ==
  [][ \A i \in SockIds, content \in {AssistantText} :
        (C_assistantMessage(i, content) \/ S_assistantMessage(i, content))
          => /\ Len(messages') = Len(messages) + 1
             /\ SubSeq(messages', 1, Len(messages)) = messages
             /\ messages'[Len(messages')].role = "assistant"
             /\ messages'[Len(messages')].content = content
    ]_vars


\* ------------------------------------------- connection manager claims, II
LiveSockets ==
  {i \in 1..Len(sockets) : sockets[i].rs \in {"CONNECTING", "OPEN"}}

\* C37: at any time at most one socket created by connect() is connecting
\* or open.
CE_C37 == Cardinality(LiveSockets) <= 1

HeldSocket == IF manager = "composable" THEN c_ws ELSE s_ws
FlagConnected == IF manager = "composable" THEN c_isConnected
                 ELSE s_isConnected
FlagConnecting == manager = "composable" /\ c_isConnecting
HeldOpen == /\ HeldSocket \in 1..Len(sockets)
            /\ sockets[HeldSocket].rs = "OPEN"

\* C38: isConnected and isConnecting are never both true, isConnected is
\* true only while the socket held by the manager is open, and while that
\* socket is open and has delivered its open event isConnected is true.
CE_C38 ==
  /\ ~(FlagConnected /\ FlagConnecting)
  /\ FlagConnected => HeldOpen
  /\ (HeldOpen /\ sockets[HeldSocket].opened) => FlagConnected

\* C39: the system store reports "connected" only while the connection
\* manager is connected.
CE_C39 == connectionStatus = "connected" => FlagConnected


\* 2^n
RECURSIVE Pow2(_)
Pow2(n) == IF n = 0 THEN 1 ELSE 2 * Pow2(n - 1)

\* C36: the store arms its k-th retry since the last open event with
\* min(1000 * 2^(k-1), 30000) ms, the delay held afterwards is
\* min(1000 * 2^k, 30000), and the stored delay always lies between 1000
\* and 30000.
Thm_C36 ==
  [][ /\ \A i \in SockIds, err \in BOOLEAN :
           (S_close(i, err) /\ Len(timers') > Len(timers))
             => /\ s_reconnectDelay = Min(1000 * Pow2(s_retries' - 1), 30000)
                /\ s_reconnectDelay' = Min(1000 * Pow2(s_retries'), 30000)
      /\ s_reconnectDelay' >= 1000
      /\ s_reconnectDelay' <= 30000
      /\ s_reconnectDelay' = Min(1000 * Pow2(s_retries'), 30000)
    ]_vars

\* The store has armed five retries in a row without an open event: the
\* delays used were 1000, 2000, 4000, 8000 and 16000, and the ceiling cut
\* the stored delay.
Wit_C36 ==
  /\ manager = "store"
  /\ s_retries = 5
  /\ s_reconnectDelay = 30000
  /\ timers # <<>>


\* ---------------------------------------------- interaction claims, II
\* C33: a planning.needs_input frame handled by either router makes its
\* payload the pending question.
CE_C33 ==
  [][ \A i \in SockIds, data \in Questions :
        (C_needsInput(i, data) \/ S_needsInput(i, data))
          => pendingQuestion' = data
    ]_vars

\* C40: when the question card goes away while the composable's socket is
\* open and connected, the socket stays open and connected.
CE_C40 ==
  [][ ( /\ clearPendingQuestion
        /\ card.mounted
        /\ manager = "composable"
        /\ c_isConnected
        /\ c_ws \in 1..Len(sockets)
        /\ sockets[c_ws].rs = "OPEN" )
        => /\ c_isConnected'
           /\ c_ws' = c_ws
           /\ sockets'[c_ws].rs = "OPEN"
    ]_vars


\* ------------------------------------------------------- routing claims
OOBChannel(message) ==
  "channel" \in DOMAIN message /\ message.channel = "oob"
InBandTypes ==
  {"connection_established", "assistant_message", "plan_approval_received",
   "error"}
TelemetryPrefixes == {"search.", "intent.", "memory.", "system."}

\* The state no message handler owns: the connection itself
ConnectionKept ==
  /\ UNCHANGED <<manager, authToken, timers, cVars, sVars, exhausted,
                 rejects>>
  /\ Len(sockets') = Len(sockets)
  /\ \A j \in 1..Len(sockets) : sockets'[j].rs = sockets[j].rs

\* One entry was put in front of the log, the rest kept up to the cap
OneNewLog ==
  /\ Len(logs') = Min(Len(logs) + 1, maxLogs)
  /\ \A k \in 2..Len(logs') : logs'[k] = logs[k - 1]

\* C31: a frame never ends the connection; an out-of-band frame leaves the
\* chat log and the connection status alone and changes only the state of
\* its namespace (planning.*: the planning store; search., intent.,
\* memory., system.: the telemetry of the system store; log.*: one new log
\* entry); an out-of-band frame of an unknown namespace and an in-band
\* frame of an unknown type change nothing.
Thm_C31 ==
  [][ \A i \in SockIds, message \in Inbound :
        C_handleMessage(i, message) =>
          /\ ConnectionKept
          /\ OOBChannel(message) =>
               /\ UNCHANGED <<messages, connectionStatus, sockets>>
               /\ UNCHANGED <<now, cardVars, sendCalls, badFrames>>
               /\ StartsWith(message.type, "planning.") =>
                    UNCHANGED <<logs, telemetryVars>>
               /\ (\E p \in TelemetryPrefixes : StartsWith(message.type, p))
                    => UNCHANGED <<logs, planVars>>
               /\ StartsWith(message.type, "log.") =>
                    /\ OneNewLog
                    /\ UNCHANGED <<planVars, activeSearches, searchStats,
                                   durations, memoryOperations, statusVars>>
               /\ (\A p \in TelemetryPrefixes \cup {"planning.", "log."} :
                     ~StartsWith(message.type, p))
                    => UNCHANGED vars
          /\ (~OOBChannel(message) /\ message.type \notin InBandTypes)
               => UNCHANGED vars
    ]_vars

\* Out-of-band frames of the planning, search, intent, memory, system and
\* log namespaces were handled on an open socket of the composable, and
\* the chat log and the connection status are as they were.
Wit_C31 ==
  /\ manager = "composable"
  /\ c_ws \in 1..Len(sockets)
  /\ sockets[c_ws].rs = "OPEN"
  /\ activePlan # NoPlan
  /\ searchStats.total = 1
  /\ lastIntent # NoIntent
  /\ memoryOperations # <<>>
  /\ systemState.state = "processing"
  /\ Len(logs) = 1
  /\ messages = <<>>
  /\ connectionStatus = "disconnected"

====
